---- MODULE Spec2Model ----
(***************************************************************************)
(* Event mesh and trading state machine of the trading engine:             *)
(* EventBus (synchronous fan-out on a snapshot), OrderManager (orders and  *)
(* positions), Portfolio (cash and pre-trade risk gate) and                *)
(* SimulatedExchange (accept/reject, instant or delayed fills, partial     *)
(* fills).  Every thread is a stack of frames: a frame is either a bus     *)
(* dispatch in progress (an event and the handlers of the snapshot not yet *)
(* invoked) or a function of the program suspended at a publish.           *)
(*                                                                         *)
(* A double is a rational <<numerator, denominator>> that fits a mantissa  *)
(* of MantissaBits bits; every arithmetic operation on doubles rounds its  *)
(* exact result to the nearest such value, ties to even (the exponent      *)
(* range is not modelled, and no operation is fused with another).  Prices,*)
(* quantities and cash are integers below 2^MantissaBits, on which the     *)
(* program's additions and multiplications are exact; the fill price of a  *)
(* MARKET order is the double that applySlippage returns.                  *)
(***************************************************************************)
EXTENDS Integers, Sequences, FiniteSets, TLC

\* ------------------------------------------------------------------ bounds
MaxCalls == 3
MaxTasks == 1
MaxQty == 2
MaxPrice == 1
InitialCapital == 3
MaxLimit == 3
MaxFills == 5
MaxRiskFills == 2
MaxFillQty == 3
MaxFillPrice == 2
MantissaBits == 11
MaxQueue == 2
MaxSubscriptions == 3
MaxOps == 2
MaxStrategies == 3
MaxStrategyCalls == 6
MaxStrayEvents == 3
SmaFastPeriod == 1
SmaSlowPeriod == 2
SmaPositionSize == 1
MaxSmaPrice == 2
MaxSmaPrices == 5

\* ------------------------------------------------------- program constants
BpsDenominator == 10000
DefaultMaxPositionSize == 1000000
DefaultMaxPortfolioExposure == 5000000

OrderIds == {"o1", "o2"}
Symbols == {"A", "B"}
Sides == {"BUY", "SELL"}
OrderTypes == {"MARKET", "LIMIT"}
Statuses == {"PENDING_NEW", "NEW", "PARTIALLY_FILLED", "FILLED",
             "PENDING_CANCEL", "CANCELLED", "REJECTED"}
TerminalStatuses == {"FILLED", "CANCELLED", "REJECTED"}
\* a rate is a percentage: 0 never, 100 always, anything between sometimes
Rates == {0, 50, 100}
\* thread 0 is the caller's thread; thread k >= 1 is the k-th detached fill task
Threads == 0..MaxTasks

\* ------------------------------------------------------- exact arithmetic
Abs(x) == IF x < 0 THEN -x ELSE x
Min(a, b) == IF a < b THEN a ELSE b
Max(a, b) == IF a > b THEN a ELSE b

RECURSIVE GCD(_, _)
GCD(a, b) == IF b = 0 THEN a ELSE GCD(b, a % b)

\* the rational n/d in lowest terms with a positive denominator (d # 0)
Rat(n, d) ==
    LET g == GCD(Abs(n), Abs(d))
        s == IF d < 0 THEN -1 ELSE 1
    IN  <<(s * n) \div g, (s * d) \div g>>
RInt(k) == <<k, 1>>
RAdd(x, y) == Rat(x[1] * y[2] + y[1] * x[2], x[2] * y[2])
RSub(x, y) == Rat(x[1] * y[2] - y[1] * x[2], x[2] * y[2])
RMul(x, y) == Rat(x[1] * y[1], x[2] * y[2])
RDiv(x, y) == Rat(x[1] * y[2], x[2] * y[1])

\* ------------------------------------------------------ double arithmetic
\* a / b rounded to the nearest integer, ties to even (a >= 0, b > 0)
RoundHalfEven(a, b) ==
    LET q == a \div b
        r == a % b
    IN  IF 2 * r < b THEN q
        ELSE IF 2 * r > b THEN q + 1
        ELSE IF q % 2 = 0 THEN q ELSE q + 1

\* a / b = (n / d) * up / down is scaled into [2^(MantissaBits-1), 2^MantissaBits)
\* and rounded there
RECURSIVE RoundScaled(_, _, _, _)
RoundScaled(a, b, up, down) ==
    IF a < 2^(MantissaBits - 1) * b THEN RoundScaled(2 * a, b, 2 * up, down)
    ELSE IF a >= 2^MantissaBits * b THEN RoundScaled(a, 2 * b, up, 2 * down)
    ELSE Rat(RoundHalfEven(a, b) * down, up)

\* the double nearest to the rational x
Fl(x) ==
    IF x[1] = 0 THEN x
    ELSE LET r == RoundScaled(Abs(x[1]), x[2], 1, 1)
         IN  IF x[1] < 0 THEN <<-r[1], r[2]>> ELSE r

FAdd(x, y) == Fl(RAdd(x, y))
FSub(x, y) == Fl(RSub(x, y))
FMul(x, y) == Fl(RMul(x, y))
FDiv(x, y) == Fl(RDiv(x, y))
RLeq(x, y) == x[1] * y[2] <= y[1] * x[2]
RAbs(x) == <<Abs(x[1]), x[2]>>

\* ------------------------------------------------------------------ events
OrderEvent(id, symbol, side, type, status, price, quantity, filled) ==
    [cat |-> "ORDER", id |-> id, symbol |-> symbol, side |-> side, type |-> type,
     status |-> status, price |-> price, quantity |-> quantity, filled |-> filled]

FillEvent(id, symbol, side, fillPrice, fillQuantity) ==
    [cat |-> "FILL", id |-> id, symbol |-> symbol, side |-> side,
     price |-> fillPrice, quantity |-> fillQuantity]

\* ------------------------------------------------------------------- Order
\* gen is history: it tells the Order objects that had the same id apart
NewOrder(symbol, side, type, price, quantity, gen) ==
    [symbol |-> symbol, side |-> side, type |-> type, status |-> "PENDING_NEW",
     price |-> price, quantity |-> quantity, filled |-> 0, avg |-> RInt(0),
     gen |-> gen]

isActive(o) == o.status \in {"NEW", "PARTIALLY_FILLED", "PENDING_NEW"}
isTerminal(o) == o.status \in {"FILLED", "CANCELLED", "REJECTED"}

\* a variant that takes the status of the event and not its filled quantity
updateStatusFromEvent(o, ev) == [o EXCEPT !.status = ev.status]

updateFromEvent(o, ev) == [o EXCEPT !.status = ev.status, !.filled = ev.filled]

OrderApplyFill(o, fillQuantity, fillPrice) ==
    LET previousFilled == o.filled
        filled == o.filled + fillQuantity
        \* filled = 0 after a fill needs a negative fill quantity, which no
        \* caller of the model passes
        avg == IF previousFilled = 0 THEN RInt(fillPrice)
               ELSE IF filled = 0 THEN o.avg
               ELSE FDiv(FAdd(FMul(o.avg, RInt(previousFilled)),
                              FMul(RInt(fillPrice), RInt(fillQuantity))),
                         RInt(filled))
        status == IF filled >= o.quantity THEN "FILLED"
                  ELSE IF filled > 0 THEN "PARTIALLY_FILLED" ELSE o.status
    IN  [o EXCEPT !.filled = filled, !.avg = avg, !.status = status]

\* ---------------------------------------------------------------- Position
\* net is history: the signed quantity of the fills applied to the position
NewPosition == [quantity |-> 0, avg |-> RInt(0), realized |-> RInt(0), net |-> 0]

\* a variant that closes a short position with the P&L of a long one
PositionApplyFillAsLong(p, side, fillQuantity, fillPrice) ==
    LET signedQuantity == IF side = "BUY" THEN fillQuantity ELSE -fillQuantity
        sameDirection == \/ (p.quantity >= 0 /\ signedQuantity > 0)
                         \/ (p.quantity < 0 /\ signedQuantity < 0)
        newQty == p.quantity + signedQuantity
    IN  IF ~sameDirection /\ p.quantity # 0
        THEN LET closing == Min(Abs(signedQuantity), Abs(p.quantity))
                 pnl == IF p.quantity > 0
                        THEN FMul(RInt(closing), FSub(RInt(fillPrice), p.avg))
                        ELSE FMul(RInt(closing), FSub(RInt(fillPrice), p.avg))
                 flips == \/ (newQty > 0 /\ signedQuantity > 0)
                          \/ (newQty < 0 /\ signedQuantity < 0)
             IN  [p EXCEPT !.quantity = newQty,
                           !.avg = IF flips THEN RInt(fillPrice) ELSE p.avg,
                           !.realized = FAdd(p.realized, pnl)]
        ELSE [p EXCEPT
                !.quantity = newQty,
                !.avg = IF p.quantity = 0 THEN RInt(fillPrice)
                        ELSE FDiv(FAdd(FMul(p.avg, RInt(p.quantity)),
                                       FMul(RInt(fillPrice), RInt(signedQuantity))),
                                  RInt(newQty))]

\* a variant that stops at flat where the fill flips the position
PositionApplyFillNoFlip(p, side, fillQuantity, fillPrice) ==
    LET signedQuantity == IF side = "BUY" THEN fillQuantity ELSE -fillQuantity
        sameDirection == \/ (p.quantity >= 0 /\ signedQuantity > 0)
                         \/ (p.quantity < 0 /\ signedQuantity < 0)
        newQty == p.quantity + signedQuantity
    IN  IF ~sameDirection /\ p.quantity # 0
        THEN LET closing == Min(Abs(signedQuantity), Abs(p.quantity))
                 pnl == IF p.quantity > 0
                        THEN FMul(RInt(closing), FSub(RInt(fillPrice), p.avg))
                        ELSE FMul(RInt(closing), FSub(p.avg, RInt(fillPrice)))
                 flips == \/ (newQty > 0 /\ signedQuantity > 0)
                          \/ (newQty < 0 /\ signedQuantity < 0)
             IN  [p EXCEPT !.quantity = IF flips THEN 0 ELSE newQty,
                           !.avg = IF flips THEN RInt(fillPrice) ELSE p.avg,
                           !.realized = FAdd(p.realized, pnl)]
        ELSE [p EXCEPT
                !.quantity = newQty,
                !.avg = IF p.quantity = 0 THEN RInt(fillPrice)
                        ELSE FDiv(FAdd(FMul(p.avg, RInt(p.quantity)),
                                       FMul(RInt(fillPrice), RInt(signedQuantity))),
                                  RInt(newQty))]

\* a variant that keeps the average where the fill flips the position
PositionApplyFillKeepsAverage(p, side, fillQuantity, fillPrice) ==
    LET signedQuantity == IF side = "BUY" THEN fillQuantity ELSE -fillQuantity
        sameDirection == \/ (p.quantity >= 0 /\ signedQuantity > 0)
                         \/ (p.quantity < 0 /\ signedQuantity < 0)
        newQty == p.quantity + signedQuantity
    IN  IF ~sameDirection /\ p.quantity # 0
        THEN LET closing == Min(Abs(signedQuantity), Abs(p.quantity))
                 pnl == IF p.quantity > 0
                        THEN FMul(RInt(closing), FSub(RInt(fillPrice), p.avg))
                        ELSE FMul(RInt(closing), FSub(p.avg, RInt(fillPrice)))
             IN  [p EXCEPT !.quantity = newQty,
                           !.realized = FAdd(p.realized, pnl)]
        ELSE [p EXCEPT
                !.quantity = newQty,
                !.avg = IF p.quantity = 0 THEN RInt(fillPrice)
                        ELSE FDiv(FAdd(FMul(p.avg, RInt(p.quantity)),
                                       FMul(RInt(fillPrice), RInt(signedQuantity))),
                                  RInt(newQty))]

PositionApplyFill(p, side, fillQuantity, fillPrice) ==
    LET signedQuantity == IF side = "BUY" THEN fillQuantity ELSE -fillQuantity
        sameDirection == \/ (p.quantity >= 0 /\ signedQuantity > 0)
                         \/ (p.quantity < 0 /\ signedQuantity < 0)
        newQty == p.quantity + signedQuantity
    IN  IF ~sameDirection /\ p.quantity # 0
        THEN LET closing == Min(Abs(signedQuantity), Abs(p.quantity))
                 pnl == IF p.quantity > 0
                        THEN FMul(RInt(closing), FSub(RInt(fillPrice), p.avg))
                        ELSE FMul(RInt(closing), FSub(p.avg, RInt(fillPrice)))
                 flips == \/ (newQty > 0 /\ signedQuantity > 0)
                          \/ (newQty < 0 /\ signedQuantity < 0)
             IN  [p EXCEPT !.quantity = newQty,
                           !.avg = IF flips THEN RInt(fillPrice) ELSE p.avg,
                           !.realized = FAdd(p.realized, pnl)]
        ELSE [p EXCEPT
                !.quantity = newQty,
                !.avg = IF p.quantity = 0 THEN RInt(fillPrice)
                        ELSE FDiv(FAdd(FMul(p.avg, RInt(p.quantity)),
                                       FMul(RInt(fillPrice), RInt(signedQuantity))),
                                  RInt(newQty))]

\* ------------------------------------------------------------------- state
VARIABLES
    subscribers,          \* EventBus: category -> sequence of [id, h]
    nextSubscriptionId,   \* EventBus
    eventCount,           \* EventBus: events published
    eventQueue,           \* EventBus: events enqueued and not yet processed
    mutex,                \* EventBus: [held, owner] of the recursive mutex
    busLog,               \* history: what the bus did for its users' calls
    orders,               \* OrderManager: order id -> Order
    positions,            \* OrderManager: symbol -> Position
    cash,                 \* Portfolio
    maxPositionSize,      \* Portfolio
    maxPortfolioExposure, \* Portfolio
    config,               \* SimulatedExchange::Config
    isRunning,            \* SimulatedExchange
    orderSubId,           \* SimulatedExchange
    marketPrices,         \* SimulatedExchange: symbol -> last price
    stack,                \* thread -> frames, innermost first
    nTasks,               \* detached fill tasks started so far
    calls,                \* calls made by the caller's thread so far
    subs,                 \* history: per exchange submission, what the exchange published
    ret,                  \* history: returns of Portfolio::submitOrder, [n, ok]
    fillNet,              \* history: SELL minus BUY notional of every Fill published
                          \*          while a Portfolio is subscribed
    handledNet,           \* history: the same, of the Fills Portfolio::onFillEvent handled
                          \*          since construction or the last Portfolio::clear
    strategies,           \* StrategyManager: registered strategies, in registration order
    strategyState,        \* Strategy: name -> [isRunning] and the history of its hooks
    portfolio2,           \* a second Portfolio on the same bus: [alive, cash, orders,
                          \*          positions]
    exchangeDestroyed     \* SimulatedExchange: its destructor has run

vars == <<subscribers, nextSubscriptionId, eventCount, eventQueue, mutex, busLog,
          orders, positions, cash,
          maxPositionSize, maxPortfolioExposure, config, isRunning, orderSubId,
          marketPrices, stack, nTasks, calls, subs, ret,  fillNet, handledNet,
          strategies, strategyState, portfolio2, exchangeDestroyed>>

busVars == <<subscribers, nextSubscriptionId, eventQueue, mutex, busLog>>
omVars == <<orders, positions>>
limitVars == <<maxPositionSize, maxPortfolioExposure>>
strategyVars == <<strategies, strategyState>>

\* The strategies that exist; a strategy is known by its name.
StrategyNames == {"sma1", "sma2"}

\* Strategy::Strategy: a strategy starts stopped.  starts/stops count the calls of
\* start()/stop(), onStart/onStop the calls of the hooks.
\* SMAStrategy::SMAStrategy: no price yet, no cross state.  seen is history: the
\* prices received since the last on_start; q the position the last evaluation
\* found; want the last order the strategy decided to submit, after n returns
\* of Portfolio::submitOrder and count prices.
NewStrategy ==
    [isRunning |-> FALSE, starts |-> 0, onStart |-> 0, stops |-> 0, onStop |-> 0,
     prices |-> <<>>, previousCross |-> "NONE", orderCounter |-> 0,
     seen |-> <<>>, q |-> 0, want |-> [n |-> -1, count |-> 0]]

\* the strategy is inside onTradeEvent, about to call submitOrder
Wanted(st) == st.want.n = ret.n

\* A StrategyManager with no strategy registered, no second Portfolio, and a
\* SimulatedExchange that exists.
NoStrategies ==
    /\ portfolio2 = [alive |-> FALSE]
    /\ exchangeDestroyed = FALSE
    /\ strategies = <<>>
    /\ strategyState = [s \in StrategyNames |-> NewStrategy]
exVars == <<config, isRunning, orderSubId, marketPrices, exchangeDestroyed>>

EmptyMap == [x \in {} |-> 0]
Put(m, k, v) == [x \in (DOMAIN m) \cup {k} |-> IF x = k THEN v ELSE m[x]]

Top(t) == Head(stack[t])
Busy(t) == stack[t] # <<>>
\* replace the innermost frame of thread t by the frames fs
Continue(t, fs) == [stack EXCEPT ![t] = fs \o Tail(stack[t])]

SignedNotional(ev) ==
    IF ev.side = "SELL" THEN ev.price * ev.quantity ELSE -(ev.price * ev.quantity)

\* ---------------------------------------------------------------- EventBus
\* a variant that copies the handlers newest first
SnapshotNewestFirst(cat) ==
    [i \in 1..Len(subscribers[cat]) |->
        subscribers[cat][Len(subscribers[cat]) + 1 - i].h]

\* the handlers publish() copies under the lock
Snapshot(cat) == [i \in 1..Len(subscribers[cat]) |-> subscribers[cat][i].h]

\* the handlers subscribed to cat, in the order of their subscription
SubscribedHandlers(cat) ==
    [i \in 1..Len(subscribers[cat]) |-> subscribers[cat][i].h]

\* the ids under which the handlers of cat were subscribed, in that order
SubscribedIds(cat) ==
    [i \in 1..Len(subscribers[cat]) |-> subscribers[cat][i].id]

\* the dispatch of ev in progress; none when nothing is subscribed to ev.  hs
\* are the handlers still to invoke; snap (the handlers subscribed when the
\* publish started), done (the handlers invoked so far), ids (the
\* subscription ids of snap) and queued (the dispatch is one of
\* processQueue) are history
DispatchFrame(ev) ==
    IF Snapshot(ev.cat) = <<>> THEN <<>>
    ELSE <<[pc |-> "dispatch", ev |-> ev, hs |-> Snapshot(ev.cat),
            snap |-> SubscribedHandlers(ev.cat), done |-> <<>>,
            ids |-> SubscribedIds(ev.cat), queued |-> FALSE]>>

\* a Portfolio's Fill handler is subscribed
PortfolioSubscribed ==
    \E i \in 1..Len(subscribers["FILL"]) : subscribers["FILL"][i].h = "pf_fill"

\* thread t can take the bus's mutex: it is free, or t holds it already
LockFree(t) == ~mutex.held \/ mutex.owner = t

\* a variant that dispatches ev once everything the thread is in has returned
BusPublishDeferred(t, ev, cont) ==
    /\ LockFree(t)
    /\ stack' = [stack EXCEPT ![t] = cont \o Tail(stack[t]) \o DispatchFrame(ev)]
    /\ eventCount' = eventCount + 1
    /\ fillNet' = IF ev.cat = "FILL" /\ PortfolioSubscribed
                THEN fillNet + SignedNotional(ev) ELSE fillNet

\* publish(ev) by thread t, whose innermost frame becomes the frames cont once
\* every handler of the snapshot has returned
BusPublish(t, ev, cont) ==
    /\ LockFree(t)
    /\ stack' = Continue(t, DispatchFrame(ev) \o cont)
    /\ eventCount' = eventCount + 1
    /\ fillNet' = IF ev.cat = "FILL" /\ PortfolioSubscribed
                THEN fillNet + SignedNotional(ev) ELSE fillNet

\* publish(ev) as the first thing a call of the idle caller's thread does
BusPublishCall(ev, cont) ==
    /\ LockFree(0)
    /\ stack' = [stack EXCEPT ![0] = DispatchFrame(ev) \o cont]
    /\ eventCount' = eventCount + 1
    /\ fillNet' = IF ev.cat = "FILL" /\ PortfolioSubscribed
                THEN fillNet + SignedNotional(ev) ELSE fillNet

\* a variant that numbers a subscription one above the greatest id registered
SubscribeAfterGreatest(cat, h) ==
    /\ LockFree(0)
    /\ UNCHANGED <<eventQueue, mutex>>
    /\ LET registered ==
             UNION {{subscribers[c][i].id : i \in 1..Len(subscribers[c])} :
                      c \in DOMAIN subscribers}
           greatest == IF registered = {} THEN 0
                       ELSE CHOOSE id \in registered :
                                \A other \in registered : other <= id
       IN  subscribers' = [subscribers EXCEPT
                             ![cat] = Append(@, [id |-> greatest + 1, h |-> h])]
    /\ nextSubscriptionId' = nextSubscriptionId + 1

\* subscribe and unsubscribe are called on the caller's thread
Subscribe(cat, h) ==
    /\ LockFree(0)
    /\ UNCHANGED <<eventQueue, mutex>>
    /\ subscribers' = [subscribers EXCEPT
                         ![cat] = Append(@, [id |-> nextSubscriptionId, h |-> h])]
    /\ nextSubscriptionId' = nextSubscriptionId + 1

\* a variant that erases the id from the Order subscribers only
UnsubscribeOrdersOnly(subscriptionId) ==
    /\ LockFree(0)
    /\ UNCHANGED <<eventQueue, mutex>>
    /\ subscribers' = [subscribers EXCEPT
                         !["ORDER"] = SelectSeq(@, LAMBDA sub :
                                                     sub.id # subscriptionId)]
    /\ UNCHANGED nextSubscriptionId

Unsubscribe(subscriptionId) ==
    /\ LockFree(0)
    /\ UNCHANGED <<eventQueue, mutex>>
    /\ subscribers' = [cat \in DOMAIN subscribers |->
                         SelectSeq(subscribers[cat],
                                   LAMBDA sub : sub.id # subscriptionId)]
    /\ UNCHANGED nextSubscriptionId

\* thread t invokes the next handler of its innermost dispatch
Invoking(t, h) ==
    /\ Busy(t)
    /\ Top(t).pc = "dispatch"
    /\ Top(t).hs # <<>>
    /\ Head(Top(t).hs) = h

\* the innermost dispatch once its first handler has returned: publish()
\* returns after the last one
Invoked(t) ==
    IF Len(Top(t).hs) = 1 THEN <<>>
    ELSE <<[Top(t) EXCEPT !.hs = Tail(@), !.done = Append(@, Head(Top(t).hs))]>>

\* ---------------------------------------------------------------- mutexes
\* A frame of Portfolio::submitOrder or of OrderManager::submitOrder says
\* whether the lock_guard of its object's mutex is still in scope (locked).
\* Both are std::mutex: a thread that locks one blocks while any thread,
\* itself included, holds it.
PortfolioLockedBy(t) ==
    \E i \in 1..Len(stack[t]) :
        stack[t][i].pc = "pf_return" /\ stack[t][i].locked

OrderManagerLockedBy(t) ==
    \E i \in 1..Len(stack[t]) :
        stack[t][i].pc = "om_publish" /\ stack[t][i].locked

PortfolioLocked == \E t \in Threads : PortfolioLockedBy(t)
OrderManagerLocked == \E t \in Threads : OrderManagerLockedBy(t)

\* ------------------------------------------------------------ OrderManager
OMOnOrderEvent(t) ==
    /\ Invoking(t, "om_order")
    /\ ~OrderManagerLocked
    /\ LET ev == Top(t).ev IN
       orders' = IF ev.id \in DOMAIN orders
                 THEN [orders EXCEPT ![ev.id] = updateFromEvent(@, ev)]
                 ELSE Put(orders, ev.id,
                          updateFromEvent(NewOrder(ev.symbol, ev.side, ev.type,
                                                   ev.price, ev.quantity,
                                                   calls), ev))
    /\ stack' = Continue(t, Invoked(t))
    /\ UNCHANGED <<busVars, eventCount, positions, cash, limitVars, strategyVars, portfolio2, exVars, nTasks,
                   calls, subs, ret,  fillNet, handledNet>>

OMOnFillEvent(t) ==
    /\ Invoking(t, "om_fill")
    /\ ~OrderManagerLocked
    /\ LET ev == Top(t).ev
           pos == IF ev.symbol \in DOMAIN positions THEN positions[ev.symbol]
                  ELSE NewPosition
       IN  /\ orders' = IF ev.id \in DOMAIN orders
                        THEN [orders EXCEPT
                                ![ev.id] = OrderApplyFill(@, ev.quantity, ev.price)]
                        ELSE orders
           /\ positions' =
                  Put(positions, ev.symbol,
                      [PositionApplyFill(pos, ev.side, ev.quantity, ev.price)
                          EXCEPT !.net = pos.net + (IF ev.side = "BUY"
                                                    THEN ev.quantity
                                                    ELSE -ev.quantity)])
    /\ stack' = Continue(t, Invoked(t))
    /\ UNCHANGED <<busVars, eventCount, cash, limitVars, strategyVars, portfolio2, exVars, nTasks,
                   calls, subs, ret,  fillNet, handledNet>>

\* --------------------------------------------------------------- Portfolio
\* a variant that debits cash whatever the side of the fill
CashAfterFillMutant(c, ev) == c - ev.price * ev.quantity

CashAfterFill(c, ev) ==
    LET tradeValue == ev.price * ev.quantity
    IN  IF ev.side = "BUY" THEN c - tradeValue
        ELSE IF ev.side = "SELL" THEN c + tradeValue ELSE c

PortfolioOnFillEvent(t) ==
    /\ Invoking(t, "pf_fill")
    /\ ~PortfolioLocked
    /\ cash' = CashAfterFill(cash, Top(t).ev)
    /\ handledNet' = handledNet + SignedNotional(Top(t).ev)
    /\ stack' = Continue(t, Invoked(t))
    /\ UNCHANGED <<busVars, eventCount, omVars, limitVars, strategyVars, portfolio2, exVars, nTasks,
                   calls, subs, ret,  fillNet>>

OrderArgs(ids, symbols, sides, types, prices, quantities) ==
    [id : ids, symbol : symbols, side : sides, type : types,
     price : prices, quantity : quantities]

PositionQty(symbol) ==
    IF symbol \in DOMAIN positions THEN positions[symbol].quantity ELSE 0

\* OrderManager::getAllPositions: the symbols whose position is not flat
NonFlatSymbols == {s \in DOMAIN positions : positions[s].quantity # 0}

RECURSIVE SumOver(_, _)
SumOver(S, f) ==
    IF S = {} THEN 0
    ELSE LET x == CHOOSE y \in S : TRUE IN f[x] + SumOver(S \ {x}, f)

\* a variant that does not skip the order's own symbol in the exposure
preTradeRiskCheckMutant(symbol, side, price, quantity, marks) ==
    LET orderValue == price * quantity
        currentQty == PositionQty(symbol)
        newQty == IF side = "BUY" THEN currentQty + quantity
                  ELSE currentQty - quantity
        newPositionValue == Abs(newQty * price)
        others == {s \in NonFlatSymbols : s \in DOMAIN marks}
        currentExposure ==
            SumOver(others, [s \in others |-> Abs(positions[s].quantity * marks[s])])
        newExposure == currentExposure + newPositionValue
    IN  IF side = "BUY" /\ orderValue > cash THEN FALSE
        ELSE IF newPositionValue > maxPositionSize THEN FALSE
        ELSE IF newExposure > maxPortfolioExposure THEN FALSE
        ELSE TRUE

preTradeRiskCheck(symbol, side, price, quantity, marks) ==
    LET orderValue == price * quantity
        currentQty == PositionQty(symbol)
        newQty == IF side = "BUY" THEN currentQty + quantity
                  ELSE currentQty - quantity
        newPositionValue == Abs(newQty * price)
        others == {s \in NonFlatSymbols : s # symbol /\ s \in DOMAIN marks}
        currentExposure ==
            SumOver(others, [s \in others |-> Abs(positions[s].quantity * marks[s])])
        newExposure == currentExposure + newPositionValue
    IN  IF side = "BUY" /\ orderValue > cash THEN FALSE
        ELSE IF newPositionValue > maxPositionSize THEN FALSE
        ELSE IF newExposure > maxPortfolioExposure THEN FALSE
        ELSE TRUE

\* the reasons the specification gives to refuse an order, for the history
\* fields of Portfolio::submitOrder's return
ProspectiveQty(a) ==
    IF a.side = "BUY" THEN PositionQty(a.symbol) + a.quantity
    ELSE PositionQty(a.symbol) - a.quantity

InsufficientCash(a) == a.side = "BUY" /\ a.price * a.quantity > cash

OtherExposure(a, marks) ==
    LET others == {s \in DOMAIN positions :
                      /\ s # a.symbol
                      /\ positions[s].quantity # 0
                      /\ s \in DOMAIN marks}
    IN  SumOver(others, [s \in others |-> Abs(positions[s].quantity * marks[s])])

\* with the prospective notional |prospective quantity| * price
WithinLimitsAsStated(a, marks) ==
    LET notional == Abs(ProspectiveQty(a)) * a.price
    IN  ~ \/ InsufficientCash(a)
          \/ notional > maxPositionSize
          \/ OtherExposure(a, marks) + notional > maxPortfolioExposure

\* with the prospective notional |prospective quantity * price|
WithinLimits(a, marks) ==
    LET notional == Abs(ProspectiveQty(a) * a.price)
    IN  ~ \/ InsufficientCash(a)
          \/ notional > maxPositionSize
          \/ OtherExposure(a, marks) + notional > maxPortfolioExposure

\* history of a call of Portfolio::submitOrder: the decisions the
\* specification's conditions give
Verdict(a, marks) ==
    [within |-> WithinLimits(a, marks), stated |-> WithinLimitsAsStated(a, marks)]

Idle == ~Busy(0) /\ calls < MaxCalls
\* a submission may start a detached fill task
CanSubmit == Idle /\ nTasks < MaxTasks

\* a variant that stores the order record before the risk check
PortfolioSubmitOrderMutant(a, marks) ==
    LET ok == preTradeRiskCheck(a.symbol, a.side, a.price, a.quantity, marks) IN
    /\ CanSubmit
    /\ calls' = calls + 1
    /\ orders' = Put(orders, a.id,
                     NewOrder(a.symbol, a.side, a.type, a.price, a.quantity, calls))
    /\ IF ok
       THEN /\ stack' = [stack EXCEPT
                           ![0] = <<[pc |-> "om_publish", a |-> a,
                                     locked |-> FALSE],
                                    [pc |-> "pf_return", a |-> a,
                                     locked |-> FALSE,
                                     events |-> eventCount,
                                     v |-> Verdict(a, marks)]>>]
            /\ ret' = ret
       ELSE /\ stack' = stack
            /\ ret' = [n |-> ret.n + 1, ok |-> FALSE, v |-> Verdict(a, marks)]
    /\ UNCHANGED <<busVars, eventCount, positions, cash, limitVars, strategyVars, portfolio2, exVars, nTasks,
                   subs, fillNet, handledNet>>

\* a variant whose lock_guard stays in scope until submitOrder returns
PortfolioSubmitOrderHoldingLock(a, marks) ==
    LET ok == preTradeRiskCheck(a.symbol, a.side, a.price, a.quantity, marks) IN
    /\ CanSubmit
    /\ ~PortfolioLocked
    /\ calls' = calls + 1
    /\ IF ok
       THEN /\ stack' = [stack EXCEPT
                           ![0] = <<[pc |-> "om_submit", a |-> a],
                                    [pc |-> "pf_return", a |-> a,
                                     locked |-> TRUE,
                                     events |-> eventCount,
                                     v |-> Verdict(a, marks)]>>]
            /\ ret' = ret
       ELSE /\ stack' = stack
            /\ ret' = [n |-> ret.n + 1, ok |-> FALSE, v |-> Verdict(a, marks)]
    /\ UNCHANGED <<busVars, eventCount, omVars, cash, limitVars, strategyVars, portfolio2, exVars, nTasks,
                   subs, fillNet, handledNet>>

\* Portfolio::submitOrder up to its decision: false is returned at once, and
\* otherwise OrderManager::submitOrder runs, with the Portfolio's mutex
\* released, before true is returned.  The fields v and events (the bus's
\* event count at the call) are history
PortfolioSubmitOrder(a, marks) ==
    LET ok == preTradeRiskCheck(a.symbol, a.side, a.price, a.quantity, marks) IN
    /\ CanSubmit
    /\ ~PortfolioLocked
    /\ calls' = calls + 1
    /\ IF ok
       THEN /\ stack' = [stack EXCEPT
                           ![0] = <<[pc |-> "om_submit", a |-> a],
                                    [pc |-> "pf_return", a |-> a,
                                     locked |-> FALSE,
                                     events |-> eventCount,
                                     v |-> Verdict(a, marks)]>>]
            /\ ret' = ret
       ELSE /\ stack' = stack
            /\ ret' = [n |-> ret.n + 1, ok |-> FALSE, v |-> Verdict(a, marks)]
    /\ UNCHANGED <<busVars, eventCount, omVars, cash, limitVars, strategyVars, portfolio2, exVars, nTasks,
                   subs, fillNet, handledNet>>

PortfolioReturn(t) ==
    /\ Busy(t)
    /\ Top(t).pc = "pf_return"
    /\ ret' = [n |-> ret.n + 1, ok |-> TRUE, v |-> Top(t).v]
    /\ stack' = Continue(t, <<>>)
    /\ UNCHANGED <<busVars, eventCount, omVars, cash, limitVars, strategyVars, portfolio2, exVars, nTasks,
                   calls, subs,  fillNet, handledNet>>

\* OrderManager::submitOrder, first half: the record is stored under the lock
OMSubmitOrder(t) ==
    /\ Busy(t)
    /\ Top(t).pc = "om_submit"
    /\ ~OrderManagerLocked
    /\ LET a == Top(t).a IN
       /\ orders' = Put(orders, a.id,
                        NewOrder(a.symbol, a.side, a.type, a.price, a.quantity,
                                 calls))
       /\ stack' = Continue(t, <<[pc |-> "om_publish", a |-> a,
                                   locked |-> FALSE]>>)
    /\ UNCHANGED <<busVars, eventCount, positions, cash, limitVars, strategyVars, portfolio2, exVars, nTasks,
                   calls, subs, ret,  fillNet, handledNet>>

\* OrderManager::submitOrder, second half: PENDING_NEW is published, lock released
OMPublishPendingNew(t) ==
    /\ Busy(t)
    /\ Top(t).pc = "om_publish"
    /\ LET a == Top(t).a IN
       BusPublish(t, OrderEvent(a.id, a.symbol, a.side, a.type, "PENDING_NEW",
                                a.price, a.quantity, 0), <<>>)
    /\ UNCHANGED <<busVars, omVars, cash, limitVars, strategyVars, portfolio2, exVars, nTasks,
                   calls, subs, ret,  handledNet>>

\* Portfolio::cancelOrder -> OrderManager::cancelOrder
PortfolioCancelOrder(id) ==
    /\ Idle
    /\ calls' = calls + 1
    /\ IF id \in DOMAIN orders /\ isActive(orders[id])
       THEN LET o == orders[id] IN
            BusPublishCall(OrderEvent(id, o.symbol, o.side, o.type, "PENDING_CANCEL",
                                      o.price, o.quantity, 0), <<>>)
       ELSE UNCHANGED <<stack, eventCount, fillNet>>
    /\ UNCHANGED <<busVars, omVars, cash, limitVars, strategyVars, portfolio2, exVars, nTasks,
                   subs, ret,  handledNet>>

PortfolioClear ==
    /\ Idle
    /\ calls' = calls + 1
    /\ cash' = InitialCapital
    /\ orders' = EmptyMap
    /\ positions' = EmptyMap
    /\ handledNet' = 0
    /\ UNCHANGED <<busVars, eventCount, limitVars, strategyVars, portfolio2, exVars, stack, nTasks,
                   subs, ret,  fillNet>>

setMaxPositionSize(maxSize) ==
    /\ Idle
    /\ calls' = calls + 1
    /\ maxPositionSize' = maxSize
    /\ UNCHANGED <<busVars, eventCount, omVars, cash, maxPortfolioExposure, strategyVars, portfolio2, exVars,
                   stack, nTasks, subs, ret,  fillNet, handledNet>>

setMaxPortfolioExposure(maxExposure) ==
    /\ Idle
    /\ calls' = calls + 1
    /\ maxPortfolioExposure' = maxExposure
    /\ UNCHANGED <<busVars, eventCount, omVars, cash, maxPositionSize, strategyVars, portfolio2, exVars,
                   stack, nTasks, subs, ret,  fillNet, handledNet>>

\* a test driver publishes an event on the bus itself
DriverPublish(ev, maxEvents) ==
    /\ ~Busy(0)
    /\ eventCount < maxEvents
    /\ BusPublishCall(ev, <<>>)
    /\ UNCHANGED <<busVars, omVars, cash, limitVars, strategyVars, portfolio2, exVars, nTasks, calls,
                   subs, ret,  handledNet>>

\* ------------------------------------------------------- SimulatedExchange
\* nothing in the program inserts into pendingOrders_
pendingOrders == EmptyMap

\* what dist(randomEngine_) < rate can return
RateOutcomes(rate) ==
    IF rate <= 0 THEN {FALSE} ELSE IF rate >= 100 THEN {TRUE} ELSE {TRUE, FALSE}

shouldReject == RateOutcomes(config.rejectionRate)
shouldPartialFill == RateOutcomes(config.partialFillRate)

\* a variant whose u ranges over [0.5, 1.0]
PartialFillQtysUpToAll(quantity) ==
    {Max(k, 1) : k \in (quantity \div 2)..quantity}

\* max(1, (int64_t)(quantity * u)) for the u of [0.5, 0.9]
PartialFillQtys(quantity) ==
    {Max(k, 1) : k \in (quantity \div 2)..((9 * quantity) \div 10)}

\* a variant that ignores the stored market price
applySlippageOnOrderPrice(symbol, side, price) ==
    LET slippageFactor == FDiv(RInt(config.slippageBps), RInt(BpsDenominator))
    IN  IF side = "BUY"
        THEN FMul(RInt(price), FAdd(RInt(1), slippageFactor))
        ELSE FMul(RInt(price), FSub(RInt(1), slippageFactor))

\* the result is a double: basePrice * (1.0 +/- slippageBps / 10000.0)
applySlippage(symbol, side, price) ==
    LET basePrice == IF symbol \in DOMAIN marketPrices THEN marketPrices[symbol]
                     ELSE price
        slippageFactor == FDiv(RInt(config.slippageBps), RInt(BpsDenominator))
    IN  IF side = "BUY"
        THEN FMul(RInt(basePrice), FAdd(RInt(1), slippageFactor))
        ELSE FMul(RInt(basePrice), FSub(RInt(1), slippageFactor))

\* history of one submission: running tells whether the exchange was running
\* when it received it, stopped whether stop() has returned since, pub is what
\* the exchange has published for it, fillPrices the prices of its Fill events
Submission(a) ==
    [id |-> a.id, quantity |-> a.quantity, running |-> isRunning,
     stopped |-> FALSE, pub |-> <<>>, fillPrices |-> <<>>]
Published(sub, kind, quantity) ==
    [subs EXCEPT ![sub].pub = Append(@, [kind |-> kind, quantity |-> quantity])]

\* publish by the exchange, for its submission sub
ExPublish(t, sub, ev, cont) ==
    /\ BusPublish(t, ev, cont)
    /\ subs' = [Published(sub, IF ev.cat = "FILL" THEN "FILL" ELSE ev.status,
                          IF ev.cat = "FILL" THEN ev.quantity ELSE ev.filled)
                  EXCEPT ![sub].fillPrices =
                           IF ev.cat = "FILL" THEN Append(@, ev.price) ELSE @]

ExStatus(a, status, filled) ==
    OrderEvent(a.id, a.symbol, a.side, a.type, status, a.price, a.quantity, filled)

\* a variant of start() without the early return
startSubscribesAgain ==
    /\ Idle
    /\ calls' = calls + 1
    /\ isRunning' = TRUE
    /\ orderSubId' = nextSubscriptionId
    /\ Subscribe("ORDER", "ex_order")
    /\ UNCHANGED busLog
    /\ UNCHANGED <<eventCount, omVars, cash, limitVars, strategyVars, portfolio2, config,
                   marketPrices, exchangeDestroyed, stack, nTasks, subs, ret, fillNet,
                   handledNet>>

start ==
    /\ Idle
    /\ calls' = calls + 1
    /\ IF isRunning
       THEN UNCHANGED <<busVars, isRunning, orderSubId>>
       ELSE /\ isRunning' = TRUE
            /\ orderSubId' = nextSubscriptionId
            /\ Subscribe("ORDER", "ex_order")
            /\ UNCHANGED busLog
    /\ UNCHANGED <<eventCount, omVars, cash, limitVars, strategyVars, portfolio2, config, marketPrices, exchangeDestroyed, stack,
                   nTasks, subs, ret,  fillNet, handledNet>>

stop ==
    /\ Idle
    /\ calls' = calls + 1
    /\ IF ~isRunning
       THEN UNCHANGED <<busVars, isRunning>>
       ELSE /\ isRunning' = FALSE
            /\ Unsubscribe(orderSubId)
            /\ UNCHANGED busLog
    /\ subs' = [s \in 1..Len(subs) |-> [subs[s] EXCEPT !.stopped = TRUE]]
    /\ UNCHANGED <<eventCount, omVars, cash, limitVars, strategyVars, portfolio2, config, orderSubId, exchangeDestroyed,
                   marketPrices, stack, nTasks, ret,  fillNet, handledNet>>

setMarketPrice(symbol, price) ==
    /\ Idle
    /\ calls' = calls + 1
    /\ marketPrices' = Put(marketPrices, symbol, price)
    /\ UNCHANGED <<busVars, eventCount, omVars, cash, limitVars, strategyVars, portfolio2, config, isRunning, exchangeDestroyed,
                   orderSubId, stack, nTasks, subs, ret, fillNet, handledNet>>

\* submitOrder called on the exchange directly
ExSubmitOrderCall(a) ==
    /\ CanSubmit
    /\ calls' = calls + 1
    /\ subs' = Append(subs, Submission(a))
    /\ stack' = [stack EXCEPT
                   ![0] = <<[pc |-> "ex_submit", a |-> a, sub |-> Len(subs) + 1]>>]
    /\ UNCHANGED <<busVars, eventCount, omVars, cash, limitVars, strategyVars, portfolio2, exVars, nTasks,
                   ret,  fillNet, handledNet>>

\* onOrderEvent: PENDING_NEW enters submitOrder, PENDING_CANCEL cancelOrder
ExOnOrderEvent(t) ==
    /\ Invoking(t, "ex_order")
    /\ LET ev == Top(t).ev
           a == [id |-> ev.id, symbol |-> ev.symbol, side |-> ev.side,
                 type |-> ev.type, price |-> ev.price, quantity |-> ev.quantity]
       IN  IF ev.status = "PENDING_NEW"
           THEN /\ subs' = Append(subs, Submission(a))
                /\ stack' = Continue(t, <<[pc |-> "ex_submit", a |-> a,
                                           sub |-> Len(subs) + 1]>> \o Invoked(t))
                /\ UNCHANGED <<eventCount, fillNet>>
           ELSE IF ev.status = "PENDING_CANCEL" /\ ev.id \in DOMAIN pendingOrders
           THEN /\ BusPublish(t, ExStatus(pendingOrders[ev.id], "CANCELLED", 0),
                              Invoked(t))
                /\ UNCHANGED subs
           ELSE /\ stack' = Continue(t, Invoked(t))
                /\ UNCHANGED <<eventCount, fillNet, subs>>
    /\ UNCHANGED <<busVars, omVars, cash, limitVars, strategyVars, portfolio2, exVars, nTasks, calls, ret,
                    handledNet>>

\* submitOrder up to its first publish: REJECTED, or NEW
ExSubmitOrder(t) ==
    /\ Busy(t)
    /\ Top(t).pc = "ex_submit"
    /\ \E reject \in shouldReject :
         IF reject
         THEN ExPublish(t, Top(t).sub, ExStatus(Top(t).a, "REJECTED", 0), <<>>)
         ELSE ExPublish(t, Top(t).sub, ExStatus(Top(t).a, "NEW", 0),
                        <<[Top(t) EXCEPT !.pc = "ex_schedule"]>>)
    /\ UNCHANGED <<busVars, omVars, cash, limitVars, strategyVars, portfolio2, exVars, nTasks, calls, ret,
                    handledNet>>

\* submitOrder after NEW: processFill here, or on a detached thread that sleeps
ExScheduleFill(t) ==
    /\ Busy(t)
    /\ Top(t).pc = "ex_schedule"
    /\ IF config.instantFills
       THEN /\ stack' = Continue(t, <<[Top(t) EXCEPT !.pc = "pf_start"]>>)
            /\ UNCHANGED nTasks
       ELSE /\ nTasks' = nTasks + 1
            /\ stack' = [Continue(t, <<>>) EXCEPT
                           ![nTasks + 1] = <<[Top(t) EXCEPT !.pc = "task_sleep"]>>]
    /\ UNCHANGED <<busVars, eventCount, omVars, cash, limitVars, strategyVars, portfolio2, exVars, calls,
                   subs, ret,  fillNet, handledNet>>

\* the detached thread wakes up: if (isRunning_) processFill(...)
TaskWake(t) ==
    /\ Busy(t)
    /\ Top(t).pc = "task_sleep"
    /\ stack' = IF isRunning THEN Continue(t, <<[Top(t) EXCEPT !.pc = "pf_start"]>>)
                ELSE Continue(t, <<>>)
    /\ UNCHANGED <<busVars, eventCount, omVars, cash, limitVars, strategyVars, portfolio2, exVars, nTasks,
                   calls, subs, ret,  fillNet, handledNet>>

\* processFill up to the first Fill
ProcessFillStart(t) ==
    /\ Busy(t)
    /\ Top(t).pc = "pf_start"
    /\ LET a == Top(t).a
           fillPrice == IF a.type = "MARKET"
                        THEN applySlippage(a.symbol, a.side, a.price) ELSE a.price
       IN  \E partial \in shouldPartialFill :
           \E fillQty \in (IF partial THEN PartialFillQtys(a.quantity)
                           ELSE {a.quantity}) :
             ExPublish(t, Top(t).sub,
                       FillEvent(a.id, a.symbol, a.side, fillPrice, fillQty),
                       <<[pc |-> "pf_filled_first", a |-> a, sub |-> Top(t).sub,
                          fillPrice |-> fillPrice, fillQty |-> fillQty]>>)
    /\ UNCHANGED <<busVars, omVars, cash, limitVars, strategyVars, portfolio2, exVars, nTasks, calls, ret,
                    handledNet>>

\* processFill after the first Fill: PARTIALLY_FILLED if it was partial
ProcessFillAfterFirst(t) ==
    /\ Busy(t)
    /\ Top(t).pc = "pf_filled_first"
    /\ LET f == Top(t) IN
       IF f.fillQty < f.a.quantity
       THEN ExPublish(t, f.sub, ExStatus(f.a, "PARTIALLY_FILLED", f.fillQty),
                      <<[f EXCEPT !.pc = "pf_remaining"]>>)
       ELSE ExPublish(t, f.sub, ExStatus(f.a, "FILLED", f.a.quantity), <<>>)
    /\ UNCHANGED <<busVars, omVars, cash, limitVars, strategyVars, portfolio2, exVars, nTasks, calls, ret,
                    handledNet>>

\* processFill after PARTIALLY_FILLED (and the sleep): the remaining Fill if
\* the exchange is still running, and in either case FILLED afterwards
ProcessFillRemaining(t) ==
    /\ Busy(t)
    /\ Top(t).pc = "pf_remaining"
    /\ LET f == Top(t) IN
       IF isRunning
       THEN ExPublish(t, f.sub,
                      FillEvent(f.a.id, f.a.symbol, f.a.side, f.fillPrice,
                                f.a.quantity - f.fillQty),
                      <<[f EXCEPT !.pc = "pf_filled"]>>)
       ELSE ExPublish(t, f.sub, ExStatus(f.a, "FILLED", f.a.quantity), <<>>)
    /\ UNCHANGED <<busVars, omVars, cash, limitVars, strategyVars, portfolio2, exVars, nTasks, calls, ret,
                    handledNet>>

ProcessFillFilled(t) ==
    /\ Busy(t)
    /\ Top(t).pc = "pf_filled"
    /\ ExPublish(t, Top(t).sub, ExStatus(Top(t).a, "FILLED", Top(t).a.quantity), <<>>)
    /\ UNCHANGED <<busVars, omVars, cash, limitVars, strategyVars, portfolio2, exVars, nTasks, calls, ret,
                    handledNet>>

\* ------------------------------------------------------ the composed system
Configs == [rejectionRate : Rates, partialFillRate : Rates, slippageBps : {0},
            instantFills : BOOLEAN]

\* Portfolio(initialCapital): the OrderManager member subscribes to ORDER and
\* to FILL, then the Portfolio to FILL
PortfolioConstructed(firstId) ==
    /\ cash = InitialCapital
    /\ maxPositionSize = DefaultMaxPositionSize
    /\ maxPortfolioExposure = DefaultMaxPortfolioExposure
    /\ orders = EmptyMap
    /\ positions = EmptyMap
    /\ nextSubscriptionId = firstId + 3
    /\ stack = [t \in Threads |-> <<>>]
    /\ nTasks = 0
    /\ calls = 0
    /\ subs = <<>>
    /\ ret = [n |-> 0, ok |-> FALSE,
              v |-> [within |-> FALSE, stated |-> FALSE]]
    /\ eventCount = 0
    /\ eventQueue = <<>>
    /\ mutex = [held |-> FALSE, owner |-> 0]
    /\ busLog = <<>>
    /\ fillNet = 0
    /\ handledNet = 0
    /\ marketPrices = EmptyMap
    /\ NoStrategies

\* the Portfolio is constructed, then the exchange (not yet started)
InitPortfolioFirst ==
    /\ PortfolioConstructed(1)
    /\ subscribers = [ORDER |-> <<[id |-> 1, h |-> "om_order"]>>,
                      FILL |-> <<[id |-> 2, h |-> "om_fill"],
                                 [id |-> 3, h |-> "pf_fill"]>>]
    /\ isRunning = FALSE
    /\ orderSubId = 0

\* the exchange is constructed and started, then the Portfolio is constructed
InitExchangeFirst ==
    /\ PortfolioConstructed(2)
    /\ subscribers = [ORDER |-> <<[id |-> 1, h |-> "ex_order"],
                                  [id |-> 2, h |-> "om_order"]>>,
                      FILL |-> <<[id |-> 3, h |-> "om_fill"],
                                 [id |-> 4, h |-> "pf_fill"]>>]
    /\ isRunning = TRUE
    /\ orderSubId = 1

Init ==
    /\ config \in Configs
    /\ InitPortfolioFirst \/ InitExchangeFirst

SpecArgs == OrderArgs(OrderIds, {"A"}, Sides, {"LIMIT"}, 1..MaxPrice, 1..MaxQty)
\* a limit that a position of MaxQty exceeds
SpecLimits == {MaxPrice * MaxQty - 1}
DirectArgs == OrderArgs({"o1"}, {"A"}, {"BUY"}, {"LIMIT"}, {MaxPrice}, {MaxQty})

ThreadStep(t) ==
    \/ OMOnOrderEvent(t)
    \/ OMOnFillEvent(t)
    \/ PortfolioOnFillEvent(t)
    \/ PortfolioReturn(t)
    \/ OMSubmitOrder(t)
    \/ OMPublishPendingNew(t)
    \/ ExOnOrderEvent(t)
    \/ ExSubmitOrder(t)
    \/ ExScheduleFill(t)
    \/ TaskWake(t)
    \/ ProcessFillStart(t)
    \/ ProcessFillAfterFirst(t)
    \/ ProcessFillRemaining(t)
    \/ ProcessFillFilled(t)

Next ==
    \/ \E a \in SpecArgs : PortfolioSubmitOrder(a, EmptyMap)
    \/ \E a \in DirectArgs : ExSubmitOrderCall(a)
    \/ \E id \in OrderIds : PortfolioCancelOrder(id)
    \/ PortfolioClear
    \/ \E maxSize \in SpecLimits : setMaxPositionSize(maxSize)
    \/ \E maxExposure \in SpecLimits : setMaxPortfolioExposure(maxExposure)
    \/ start
    \/ stop
    \/ \E t \in Threads : ThreadStep(t)

Spec == Init /\ [][Next]_vars

\* --------------------------------------------------------- replay of fills
\* the tests' way of driving OrderManager and Portfolio: Fill events are
\* published on the bus with no exchange running
QuietConfig ==
    [rejectionRate |-> 0, partialFillRate |-> 0, slippageBps |-> 0,
     instantFills |-> TRUE]

ReplayFills ==
    {FillEvent("o1", symbol, side, price, quantity) :
        symbol \in Symbols, side \in Sides,
        price \in 1..MaxFillPrice, quantity \in 1..MaxFillQty}

InitReplay ==
    /\ config = QuietConfig
    /\ InitPortfolioFirst

NextPnl ==
    \/ \E ev \in ReplayFills : DriverPublish(ev, MaxFills)
    \/ \E t \in Threads : OMOnFillEvent(t)
    \/ \E t \in Threads : PortfolioOnFillEvent(t)

SpecPnl == InitReplay /\ [][NextPnl]_vars

\* ------------------------------------------------- the pre-trade risk gate
\* fills build positions, the limits are set, orders are submitted with a
\* map of mark prices
RiskFills ==
    {FillEvent("o1", symbol, side, price, quantity) :
        symbol \in Symbols, side \in Sides,
        price \in 1..MaxFillPrice, quantity \in 1..MaxQty}

\* orders for one symbol, positions in both; the program accepts any price,
\* and a negative one is among the arguments
RiskArgs ==
    OrderArgs({"o2"}, {"A"}, Sides, {"LIMIT"}, {-1} \cup (1..MaxFillPrice),
              1..MaxQty)

MarkMaps == UNION {[S -> 1..MaxFillPrice] : S \in SUBSET Symbols}

NextRisk ==
    \/ \E ev \in RiskFills : DriverPublish(ev, MaxRiskFills)
    \/ \E a \in RiskArgs : \E marks \in MarkMaps : PortfolioSubmitOrder(a, marks)
    \/ \E maxSize \in 1..MaxLimit : setMaxPositionSize(maxSize)
    \/ \E maxExposure \in 1..MaxLimit : setMaxPortfolioExposure(maxExposure)
    \/ \E t \in Threads : OMOnFillEvent(t)
    \/ \E t \in Threads : PortfolioOnFillEvent(t)
    \/ \E t \in Threads : OMSubmitOrder(t)
    \/ \E t \in Threads : OMPublishPendingNew(t)
    \/ \E t \in Threads : OMOnOrderEvent(t)
    \/ \E t \in Threads : PortfolioReturn(t)

SpecRisk == InitReplay /\ [][NextRisk]_vars

\* ------------------------------------------------------------------ claims
\* the quantity of the Fill events among the first n entries of pub
RECURSIVE FillSum(_, _)
FillSum(pub, n) ==
    IF n = 0 THEN 0
    ELSE FillSum(pub, n - 1) + (IF pub[n].kind = "FILL" THEN pub[n].quantity ELSE 0)

TerminalCount(pub) ==
    Cardinality({i \in 1..Len(pub) : pub[i].kind \in TerminalStatuses})

\* some thread is still inside submitOrder or processFill for submission s
InProgress(s) ==
    \E t \in Threads : \E i \in 1..Len(stack[t]) :
        "sub" \in DOMAIN stack[t][i] /\ stack[t][i].sub = s

Quiescent == \A t \in Threads : ~Busy(t)

\* C1: whenever the exchange publishes FILLED for a submission, the Fill
\* events it published for it before sum to the order's quantity
C1_FilledMeansFillsSumToQuantity ==
    \A s \in 1..Len(subs) : \A i \in 1..Len(subs[s].pub) :
        (subs[s].running /\ subs[s].pub[i].kind = "FILLED")
            => FillSum(subs[s].pub, i - 1) = subs[s].quantity

\* C2: every submission the running exchange receives gets exactly one
\* terminal status: never two, and one once the exchange is done with it
C2_ExactlyOneTerminalStatus ==
    \A s \in 1..Len(subs) :
        subs[s].running =>
            /\ TerminalCount(subs[s].pub) <= 1
            /\ ~InProgress(s) => TerminalCount(subs[s].pub) = 1

\* C3 as stated: with no handler pending, cash is the initial capital plus
\* the signed notional of every Fill event published since construction
C3_CashIsInitialPlusPublishedFills ==
    Quiescent => cash = InitialCapital + fillNet

\* C3 amended: cash is the initial capital plus the signed notional of the
\* Fill events Portfolio::onFillEvent has handled since construction or the
\* last Portfolio::clear(); nothing else moves cash
C3_CashIsInitialPlusHandledFills ==
    cash = InitialCapital + handledNet

\* a fill has moved cash, and clear() has since dropped fills from the sum
C3_Witness ==
    /\ Quiescent
    /\ handledNet # 0
    /\ fillNet # handledNet

\* the same Order object (history field gen) is in the map before and after
\* and the exchange has received that id at most once
SameOrder(id) ==
    /\ id \in DOMAIN orders
    /\ id \in DOMAIN orders'
    /\ orders'[id].gen = orders[id].gen
    /\ Cardinality({s \in 1..Len(subs') : subs'[s].id = id}) <= 1

\* C4: an order's filled quantity never decreases and never exceeds its
\* quantity, whatever Fill and Order events reach the OrderManager
C4_FilledMonotoneAndBounded ==
    [][\A id \in OrderIds :
          SameOrder(id) =>
              /\ orders'[id].filled >= orders[id].filled
              /\ orders'[id].filled <= orders'[id].quantity]_vars

\* C5: once an order's record is FILLED, CANCELLED or REJECTED no later
\* event changes its status
C5_TerminalStatusIsFinal ==
    [][\A id \in OrderIds :
          (SameOrder(id) /\ isTerminal(orders[id]))
              => orders'[id].status = orders[id].status]_vars

\* C8: a Portfolio::submitOrder that returns false publishes nothing, leaves
\* cash alone, stores no order record and starts no work
C8_RejectedSubmitLeavesNoTrace ==
    [][(ret'.n = ret.n + 1 /\ ~ret'.ok)
          => /\ eventCount' = eventCount
             /\ cash' = cash
             /\ orders' = orders
             /\ positions' = positions
             /\ stack' = stack
             /\ subs' = subs]_vars

\* a submit has returned false against a portfolio that holds an order
C8_Witness ==
    /\ ret.n >= 1
    /\ ~ret.ok
    /\ DOMAIN orders # {}

IsPrefix(p, q) ==
    /\ Len(p) <= Len(q)
    /\ \A i \in 1..Len(p) : p[i] = q[i]

\* what the exchange publishes for an order of the given quantity
FullFillSequence(quantity) ==
    << [kind |-> "NEW", quantity |-> 0],
       [kind |-> "FILL", quantity |-> quantity],
       [kind |-> "FILLED", quantity |-> quantity] >>

PartialFillSequence(quantity, fillQty) ==
    << [kind |-> "NEW", quantity |-> 0],
       [kind |-> "FILL", quantity |-> fillQty],
       [kind |-> "PARTIALLY_FILLED", quantity |-> fillQty],
       [kind |-> "FILL", quantity |-> quantity - fillQty],
       [kind |-> "FILLED", quantity |-> quantity] >>

RejectSequence == << [kind |-> "REJECTED", quantity |-> 0] >>

\* C10: what the exchange has published for a submission is always a prefix
\* of REJECTED alone, of NEW, Fill, FILLED, or of NEW, Fill,
\* PARTIALLY_FILLED, remainder Fill, FILLED
C10_PublicationOrder ==
    \A s \in 1..Len(subs) :
        subs[s].running =>
            \/ IsPrefix(subs[s].pub, RejectSequence)
            \/ IsPrefix(subs[s].pub, FullFillSequence(subs[s].quantity))
            \/ \E f \in 1..(subs[s].quantity - 1) :
                   IsPrefix(subs[s].pub,
                            PartialFillSequence(subs[s].quantity, f))

\* OrderManager::getTotalRealizedPnL
RECURSIVE SumRealized(_)
SumRealized(S) ==
    IF S = {} THEN RInt(0)
    ELSE LET x == CHOOSE y \in S : TRUE
         IN  FAdd(SumRealized(S \ {x}), positions[x].realized)

getTotalRealizedPnL == SumRealized(DOMAIN positions)

AllFlat == \A s \in DOMAIN positions : positions[s].quantity = 0

\* C6 as stated: once every fill is handled and every position is flat, the
\* total realized P&L is exactly the SELL notional minus the BUY notional of
\* the fills, which is final cash minus initial capital
C6_PnlIdentityExact ==
    (Quiescent /\ AllFlat)
        => /\ getTotalRealizedPnL = RInt(fillNet)
           /\ fillNet = cash - InitialCapital

\* the rounding error MaxFills fills can accumulate: each fill rounds at most
\* four times, each time by at most 2^-MantissaBits of a value no larger
\* than the gross notional
PnlTolerance ==
    Rat(4 * MaxFills * MaxFills * MaxFillPrice * MaxFillQty, 2^MantissaBits)

\* C6 amended: once every fill is handled and every position is flat, SELL
\* notional minus BUY notional is exactly final cash minus initial capital,
\* and the total realized P&L differs from it by rounding error at most
C6_PnlIdentityUpToRounding ==
    (Quiescent /\ AllFlat)
        => /\ RLeq(RAbs(RSub(getTotalRealizedPnL, RInt(fillNet))), PnlTolerance)
           /\ fillNet = cash - InitialCapital

\* both positions were opened and closed again, with a profit or a loss
C6_Witness ==
    /\ Quiescent
    /\ AllFlat
    /\ DOMAIN positions = Symbols
    /\ getTotalRealizedPnL # RInt(0)
    /\ getTotalRealizedPnL # RInt(fillNet)

\* C7: the quantity of every position is the sum, over the fills the
\* OrderManager has handled for its symbol, of +quantity for BUY and
\* -quantity for SELL
C7_PositionIsSumOfFills ==
    \A s \in DOMAIN positions : positions[s].quantity = positions[s].net

\* a position that has been long is short after three fills
C7_Witness ==
    \E s \in DOMAIN positions :
        /\ positions[s].quantity < 0
        /\ positions[s].realized # RInt(0)
        /\ eventCount = MaxFills

\* C9 as stated: Portfolio::submitOrder returns true exactly when the order
\* is a SELL or a BUY the cash covers, |current quantity +/- quantity| * price
\* fits max_position_size, and the exposure of the other marked non-flat
\* positions plus |current quantity +/- quantity| * price fits
\* max_portfolio_exposure; otherwise it returns false
C9_AcceptsAsStated ==
    [][ret'.n = ret.n + 1 => ret'.ok = ret'.v.stated]_vars

\* C9 amended: the same with the prospective notional
\* |(current quantity +/- quantity) * price|, and an order accepted has been
\* stored by the OrderManager and published before true is returned
C9_AcceptsExactlyWithinLimits ==
    [][ret'.n = ret.n + 1 =>
          /\ ret'.ok = ret'.v.within
          /\ ret'.ok => /\ Top(0).a.id \in DOMAIN orders
                        /\ orders[Top(0).a.id].gen = calls
                        /\ eventCount > Top(0).events]_vars

\* an accepted submit returns true once the order is stored and published
C9_Returned(ok) ==
    /\ Quiescent
    /\ ret.n >= 1
    /\ ret.ok = ok

\* a submit was refused although cash and the position limit allowed it:
\* the other symbol's position is non-flat and the exposure limit was lowered
C9_Witness ==
    /\ C9_Returned(FALSE)
    /\ maxPositionSize = DefaultMaxPositionSize
    /\ maxPortfolioExposure < DefaultMaxPortfolioExposure
    /\ cash >= MaxFillPrice * MaxQty
    /\ NonFlatSymbols # {}

\* C11: once stop() has returned, the exchange publishes no further Fill or
\* Order event for a submission it had received before: not the FILLED of an
\* order whose remaining Fill was skipped, and not after a later start().
C11_NoPublishAfterStop ==
    [][\A s \in 1..Len(subs) :
         subs[s].stopped => subs'[s].pub = subs[s].pub]_vars

\* the kinds the exchange has published for submission s
PubKinds(s) == {subs[s].pub[i].kind : i \in 1..Len(subs[s].pub)}

\* the exchange has accepted order id (published NEW) and published no Fill,
\* FILLED or REJECTED for it
AcceptedUnfilled(id) ==
    /\ \E s \in 1..Len(subs) : subs[s].id = id /\ "NEW" \in PubKinds(s)
    /\ \A s \in 1..Len(subs) :
         subs[s].id = id => PubKinds(s) \subseteq {"NEW"}

\* thread t is about to hand a PENDING_CANCEL of order id to the running
\* exchange
CancelArrives(t, id) ==
    /\ isRunning
    /\ Invoking(t, "ex_order")
    /\ Top(t).ev.status = "PENDING_CANCEL"
    /\ Top(t).ev.id = id

\* C12: when the running exchange handles a PENDING_CANCEL for an order it has
\* accepted and not yet filled, it publishes CANCELLED for that order id.
C12_CancelPublishesCancelled ==
    [][\A t \in Threads : \A id \in OrderIds :
         (CancelArrives(t, id) /\ AcceptedUnfilled(id) /\ stack'[t] # stack[t])
         => /\ eventCount' = eventCount + 1
            /\ stack'[t] # <<>>
            /\ Head(stack'[t]).pc = "dispatch"
            /\ Head(stack'[t]).ev.status = "CANCELLED"
            /\ Head(stack'[t]).ev.id = id]_vars

\* the idle caller's thread starts the dispatch of a PENDING_CANCEL: the
\* publish of OrderManager::cancelOrder
CancelPublished ==
    /\ stack[0] = <<>>
    /\ stack'[0] # <<>>
    /\ Head(stack'[0]).pc = "dispatch"
    /\ Head(stack'[0]).ev.cat = "ORDER"
    /\ Head(stack'[0]).ev.status = "PENDING_CANCEL"

\* C13: the PENDING_CANCEL that cancelOrder(id) publishes for an existing
\* active order carries the order's current side, type, price, quantity and
\* filled quantity, and it is the only event the call publishes.
C13_CancelCarriesOrderValues ==
    [][CancelPublished =>
         LET ev == Head(stack'[0]).ev IN
         /\ eventCount' = eventCount + 1
         /\ ev.id \in DOMAIN orders
         /\ isActive(orders[ev.id])
         /\ ev.side = orders[ev.id].side
         /\ ev.type = orders[ev.id].type
         /\ ev.price = orders[ev.id].price
         /\ ev.quantity = orders[ev.id].quantity
         /\ ev.filled = orders[ev.id].filled]_vars

\* the ids of the orders getActiveOrders returns, and their count
getActiveOrders == {id \in DOMAIN orders : isActive(orders[id])}
getActiveOrderCount == Cardinality(getActiveOrders)

ActiveStatuses == {"PENDING_NEW", "NEW", "PARTIALLY_FILLED", "PENDING_CANCEL"}

\* C14: every order the OrderManager holds is either active (PENDING_NEW, NEW,
\* PARTIALLY_FILLED or PENDING_CANCEL, and then returned by getActiveOrders
\* and counted by getActiveOrderCount) or terminal, never both, never neither.
C14_ActiveTerminalPartition ==
    /\ \A id \in DOMAIN orders :
         /\ isActive(orders[id]) # isTerminal(orders[id])
         /\ (orders[id].status \in ActiveStatuses) = (id \in getActiveOrders)
         /\ (orders[id].status \in TerminalStatuses) = isTerminal(orders[id])
    /\ getActiveOrderCount =
         Cardinality({id \in DOMAIN orders : orders[id].status \in ActiveStatuses})

\* thread t runs OrderManager::submitOrder with an id that is already present
DuplicateSubmit(t) ==
    /\ Busy(t)
    /\ Top(t).pc = "om_submit"
    /\ Top(t).a.id \in DOMAIN orders
    /\ stack'[t] # stack[t]

\* C15: OrderManager::submitOrder with an id that is already present leaves the
\* existing record (status, filled quantity, average fill price) unchanged and
\* does not go on to publish a second PENDING_NEW for that id.
C15_DuplicateIdIsNoOp ==
    [][\A t \in Threads :
         DuplicateSubmit(t) =>
           LET id == Top(t).a.id IN
           /\ id \in DOMAIN orders'
           /\ orders'[id].status = orders[id].status
           /\ orders'[id].filled = orders[id].filled
           /\ orders'[id].avg = orders[id].avg
           /\ ~(stack'[t] # <<>> /\ Head(stack'[t]).pc = "om_publish")]_vars

\* ------------------------------------------- non-positive order quantities
\* orders of quantity 0 and -1 are submitted through the Portfolio to a
\* running exchange that fills at once
QtyConfigs ==
    [rejectionRate : {0}, partialFillRate : {0, 100}, slippageBps : {0},
     instantFills : {TRUE}]

QtyArgs == OrderArgs(OrderIds, {"A"}, Sides, {"LIMIT"}, {MaxPrice}, {-1, 0})

InitQty ==
    /\ config \in QtyConfigs
    /\ InitExchangeFirst

NextQty ==
    \/ \E a \in QtyArgs : PortfolioSubmitOrder(a, EmptyMap)
    \/ \E t \in Threads : OMSubmitOrder(t)
    \/ \E t \in Threads : OMPublishPendingNew(t)
    \/ \E t \in Threads : OMOnOrderEvent(t)
    \/ \E t \in Threads : OMOnFillEvent(t)
    \/ \E t \in Threads : PortfolioOnFillEvent(t)
    \/ \E t \in Threads : PortfolioReturn(t)
    \/ \E t \in Threads : ExOnOrderEvent(t)
    \/ \E t \in Threads : ExSubmitOrder(t)
    \/ \E t \in Threads : ExScheduleFill(t)
    \/ \E t \in Threads : ProcessFillStart(t)
    \/ \E t \in Threads : ProcessFillAfterFirst(t)

SpecQty == InitQty /\ [][NextQty]_vars

\* C16: a submission with quantity <= 0 has no Fill published for it, and
\* neither cash nor any position changes because of it (every submission of
\* SpecQty has such a quantity).
C16_NonPositiveQuantityHasNoEffect ==
    /\ \A s \in 1..Len(subs) :
         subs[s].quantity <= 0 => "FILL" \notin PubKinds(s)
    /\ (\A s \in 1..Len(subs) : subs[s].quantity <= 0) =>
         /\ cash = InitialCapital
         /\ \A symbol \in DOMAIN positions : positions[symbol].quantity = 0

\* ------------------------------------------------------ the exchange alone
\* the exchange as the exchange tests drive it, with no Portfolio constructed
\* (its variables stay as they are): the exchange is started and stopped,
\* market prices are set and MARKET and LIMIT orders are submitted to it,
\* which it fills at once; a price may be negative, which the program accepts
ExchangeConfigs ==
    [rejectionRate : {0}, partialFillRate : {0, 100}, slippageBps : {0, 100},
     instantFills : {TRUE}]

ExchangePrices == {-1} \cup (1..MaxFillPrice)

ExchangeArgs ==
    OrderArgs({"o1"}, {"A"}, Sides, OrderTypes, ExchangePrices,
              {MaxQty, MaxQty + 1})

InitExchange ==
    /\ config \in ExchangeConfigs
    /\ subscribers = [ORDER |-> <<[id |-> 1, h |-> "ex_order"]>>, FILL |-> <<>>]
    /\ nextSubscriptionId = 2
    /\ isRunning = TRUE
    /\ orderSubId = 1
    /\ marketPrices = EmptyMap
    /\ cash = 0
    /\ maxPositionSize = 0
    /\ maxPortfolioExposure = 0
    /\ orders = EmptyMap
    /\ positions = EmptyMap
    /\ stack = [t \in Threads |-> <<>>]
    /\ nTasks = 0
    /\ calls = 0
    /\ subs = <<>>
    /\ ret = [n |-> 0, ok |-> FALSE, v |-> [within |-> FALSE, stated |-> FALSE]]
    /\ eventCount = 0
    /\ eventQueue = <<>>
    /\ mutex = [held |-> FALSE, owner |-> 0]
    /\ busLog = <<>>
    /\ fillNet = 0
    /\ handledNet = 0
    /\ NoStrategies

NextExchange ==
    \/ \E symbol \in {"A"}, price \in ExchangePrices : setMarketPrice(symbol, price)
    \/ \E a \in ExchangeArgs : ExSubmitOrderCall(a)
    \/ start
    \/ stop
    \/ \E t \in Threads : ExOnOrderEvent(t)
    \/ \E t \in Threads : ExSubmitOrder(t)
    \/ \E t \in Threads : ExScheduleFill(t)
    \/ \E t \in Threads : ProcessFillStart(t)
    \/ \E t \in Threads : ProcessFillAfterFirst(t)
    \/ \E t \in Threads : ProcessFillRemaining(t)
    \/ \E t \in Threads : ProcessFillFilled(t)

SpecExchange == InitExchange /\ [][NextExchange]_vars

\* partial_fill_rate = 1.0, rejection_rate = 0 and instant_fills = true
AlwaysPartialAtOnce ==
    /\ config.partialFillRate = 100
    /\ config.rejectionRate = 0
    /\ config.instantFills

\* submission s has had exactly two Fill events, the first of a quantity in
\* [1, q-1], summing to q, at equal prices, with FILLED last; or it is on its
\* way there
TwoFillsThenFilled(s) ==
    /\ \E f \in 1..(subs[s].quantity - 1) :
         /\ IsPrefix(subs[s].pub, PartialFillSequence(subs[s].quantity, f))
         /\ ~InProgress(s) =>
              subs[s].pub = PartialFillSequence(subs[s].quantity, f)
    /\ Len(subs[s].fillPrices) = 2 =>
         subs[s].fillPrices[1] = subs[s].fillPrices[2]

BasePrice(a) ==
    IF a.symbol \in DOMAIN marketPrices THEN marketPrices[a.symbol] ELSE a.price

\* base * (1 + slippage_bps / 10000) for BUY, base * (1 - slippage_bps / 10000)
\* for SELL, in double arithmetic
SlippedPrice(side, base) ==
    LET factor == FDiv(RInt(config.slippageBps), RInt(BpsDenominator))
    IN  FMul(RInt(base), IF side = "BUY" THEN FAdd(RInt(1), factor)
                         ELSE FSub(RInt(1), factor))

\* thread t publishes the first Fill of an order in this step
FirstFill(t) ==
    /\ Busy(t)
    /\ Top(t).pc = "pf_start"
    /\ stack'[t] # stack[t]

\* thread t publishes the remaining Fill of an order in this step
RemainingFill(t) ==
    /\ Busy(t)
    /\ Top(t).pc = "pf_remaining"
    /\ Len(subs'[Top(t).sub].fillPrices) > Len(subs[Top(t).sub].fillPrices)

\* the price of the Fill published in this step for submission s
NewFillPrice(s) == subs'[s].fillPrices[Len(subs'[s].fillPrices)]

\* the price of every Fill is the stated one: the order price for LIMIT, the
\* slipped base price for MARKET, and the same for the remainder
FillPriceAsStated(t) ==
    /\ FirstFill(t) =>
         IF Top(t).a.type = "LIMIT"
         THEN NewFillPrice(Top(t).sub) = Top(t).a.price
         ELSE NewFillPrice(Top(t).sub) =
                  SlippedPrice(Top(t).a.side, BasePrice(Top(t).a))
    /\ RemainingFill(t) =>
         NewFillPrice(Top(t).sub) = subs[Top(t).sub].fillPrices[1]

\* a MARKET BUY is not filled below base, a MARKET SELL not above
NotWorseThanBase(t) ==
    (FirstFill(t) /\ Top(t).a.type = "MARKET") =>
        IF Top(t).a.side = "BUY"
        THEN RLeq(RInt(BasePrice(Top(t).a)), NewFillPrice(Top(t).sub))
        ELSE RLeq(NewFillPrice(Top(t).sub), RInt(BasePrice(Top(t).a)))

\* C18 as stated: a LIMIT order is filled at its order price, a MARKET order at
\* base * (1 +/- slippage_bps / 10000), base being the stored market price or
\* else the order price; and a MARKET BUY never fills below base, a MARKET
\* SELL never above.
C18_FillPriceAndBound ==
    [][\A t \in Threads : FillPriceAsStated(t) /\ NotWorseThanBase(t)]_vars

\* C18: the same prices; the bound holds when base is not negative.
C18_FillPriceAndBoundForNonNegativeBase ==
    [][\A t \in Threads :
         /\ FillPriceAsStated(t)
         /\ (FirstFill(t) /\ BasePrice(Top(t).a) >= 0) => NotWorseThanBase(t)]_vars

\* a MARKET BUY has just been filled above the stored market price, which is
\* not its order price
C18_Witness ==
    \E t \in Threads :
        /\ Busy(t)
        /\ Top(t).pc = "pf_filled_first"
        /\ Top(t).a.type = "MARKET"
        /\ Top(t).a.side = "BUY"
        /\ config.slippageBps > 0
        /\ Top(t).a.symbol \in DOMAIN marketPrices
        /\ marketPrices[Top(t).a.symbol] # Top(t).a.price
        /\ marketPrices[Top(t).a.symbol] > 0
        /\ subs[Top(t).sub].fillPrices = <<Top(t).fillPrice>>
        /\ ~RLeq(Top(t).fillPrice, RInt(marketPrices[Top(t).a.symbol]))

\* the category a handler was subscribed to
HandlerCategory(h) == IF h \in {"om_order", "ex_order"} THEN "ORDER" ELSE "FILL"

\* every dispatch in progress has invoked, in the order of subscription and
\* each once, a prefix of the handlers that were subscribed to the event's
\* category when its publish started, and has the rest of them still to invoke
DispatchFollowsSnapshot ==
    \A t \in Threads : \A i \in 1..Len(stack[t]) :
        stack[t][i].pc = "dispatch" =>
            /\ stack[t][i].done \o stack[t][i].hs = stack[t][i].snap
            /\ stack[t][i].hs # <<>>
            /\ \A k \in 1..Len(stack[t][i].snap) :
                 HandlerCategory(stack[t][i].snap[k]) = stack[t][i].ev.cat

\* thread t starts a publish in this step
PublishStarts(t) ==
    /\ stack'[t] # stack[t]
    /\ stack'[t] # <<>>
    /\ Head(stack'[t]).pc = "dispatch"
    /\ Head(stack'[t]).done = <<>>

\* thread t invokes the next handler of its innermost dispatch in this step
HandlerInvoked(t) ==
    /\ Busy(t)
    /\ Top(t).pc = "dispatch"
    /\ stack'[t] # stack[t]

\* the frames of thread t below its innermost one are the same after the step
RestKept(t, above) ==
    /\ Len(stack'[t]) >= above + Len(stack[t]) - 1
    /\ SubSeq(stack'[t], Len(stack'[t]) - Len(stack[t]) + 2, Len(stack'[t]))
         = Tail(stack[t])

EnqueueAtFront(ev) ==
    /\ Idle
    /\ LockFree(0)
    /\ Len(eventQueue) < MaxQueue
    /\ calls' = calls + 1
    /\ eventQueue' = <<ev>> \o eventQueue
    /\ UNCHANGED <<subscribers, nextSubscriptionId, mutex, busLog, eventCount,
                   omVars, cash, limitVars, strategyVars, portfolio2, exVars, stack, nTasks, subs, ret,
                   fillNet, handledNet>>

\* enqueue(event) on the caller's thread
Enqueue(ev) ==
    /\ Idle
    /\ LockFree(0)
    /\ Len(eventQueue) < MaxQueue
    /\ calls' = calls + 1
    /\ eventQueue' = Append(eventQueue, ev)
    /\ UNCHANGED <<subscribers, nextSubscriptionId, mutex, busLog, eventCount,
                   omVars, cash, limitVars, strategyVars, portfolio2, exVars, stack, nTasks, subs, ret,
                   fillNet, handledNet>>

\* processQueue(maxEvents) on the caller's thread, up to taking the mutex,
\* which its lock_guard holds until the call returns; len0 (the length of the
\* queue at the call) is history
ProcessQueueCall(maxEvents) ==
    /\ Idle
    /\ LockFree(0)
    /\ calls' = calls + 1
    /\ mutex' = [held |-> TRUE, owner |-> 0]
    /\ stack' = [stack EXCEPT ![0] = <<[pc |-> "process_queue", processed |-> 0,
                                        maxEvents |-> maxEvents,
                                        len0 |-> Len(eventQueue)]>>]
    /\ UNCHANGED <<subscribers, nextSubscriptionId, eventQueue, busLog,
                   eventCount, omVars, cash, limitVars, strategyVars, portfolio2, exVars, nTasks, subs, ret,
                   fillNet, handledNet>>

\* one turn of the loop of processQueue: the front event is popped and its
\* subscribers are invoked, or the loop ends and the mutex is released
ProcessQueueLoop(t) ==
    /\ Busy(t)
    /\ Top(t).pc = "process_queue"
    /\ IF eventQueue # <<>>
          /\ (Top(t).maxEvents = 0 \/ Top(t).processed < Top(t).maxEvents)
       THEN LET ev == Head(eventQueue)
                hs == SubscribedHandlers(ev.cat)
            IN  /\ eventQueue' = Tail(eventQueue)
                /\ stack' =
                     Continue(t, (IF hs = <<>> THEN <<>>
                                  ELSE <<[pc |-> "dispatch", ev |-> ev, hs |-> hs,
                                          snap |-> hs, done |-> <<>>,
                                          ids |-> SubscribedIds(ev.cat),
                                          queued |-> TRUE]>>)
                                 \o <<[Top(t) EXCEPT !.processed = @ + 1]>>)
                /\ UNCHANGED mutex
       ELSE /\ stack' = Continue(t, <<>>)
            /\ mutex' = [held |-> FALSE, owner |-> 0]
            /\ UNCHANGED eventQueue
    /\ UNCHANGED <<subscribers, nextSubscriptionId, busLog, eventCount, omVars,
                   cash, limitVars, strategyVars, portfolio2, exVars, nTasks, calls, subs, ret, fillNet,
                   handledNet>>

\* Fill events are enqueued and published with a Portfolio constructed, and
\* processQueue is called with and without a maximum
QueueEvents ==
    {FillEvent("o1", "A", side, MaxPrice, quantity) :
        side \in Sides, quantity \in 1..MaxQty}

NextQueue ==
    \/ \E ev \in QueueEvents : Enqueue(ev)
    \/ \E maxEvents \in 0..1 : ProcessQueueCall(maxEvents)
    \/ \E t \in Threads : ProcessQueueLoop(t)
    \/ \E ev \in QueueEvents : DriverPublish(ev, MaxQueue)
    \/ \E t \in Threads : OMOnFillEvent(t)
    \/ \E t \in Threads : PortfolioOnFillEvent(t)

SpecQueue == InitReplay /\ [][NextQueue]_vars

\* some thread is in a dispatch: a handler is being invoked or about to be
Dispatching ==
    \E t \in Threads : \E i \in 1..Len(stack[t]) : stack[t][i].pc = "dispatch"

\* C20: the EventBus does not hold its mutex while a handler is being invoked,
\* whether the dispatch comes from publish or from processQueue.
C20_NoLockDuringDispatch == Dispatching => ~mutex.held

\* ---------------------------------------------------- the bus and its users
\* The EventBus alone, with handlers of its users: a handler may subscribe a
\* handler, unsubscribe an id, publish an event, enqueue an event (at most
\* MaxOps of these per invocation), and then returns or throws.  The caller
\* subscribes, unsubscribes, publishes, enqueues, drains the queue and clears
\* the bus; another thread unsubscribes while the caller's thread is in a call.

\* first-level events are published by the caller, second-level events by a
\* handler of a first-level event
BusCategories == {"ORDER", "FILL"}
BusEvents == {[cat |-> cat, n |-> 0] : cat \in BusCategories}
Reaction(ev, cat) == [cat |-> cat, n |-> ev.n + 1]

\* the ids of the handlers subscribed to some category
RegisteredIds ==
    UNION {{subscribers[cat][i].id : i \in 1..Len(subscribers[cat])} :
             cat \in DOMAIN subscribers}

\* the bus is constructed and nothing has subscribed.  busLog is history:
\* issued are the ids subscribe has returned, removed the ids unsubscribe was
\* called with and has returned for, late the ids subscribed by a handler
\* during a dispatch, thrown the calls a handler's exception has ended
InitBus ==
    /\ subscribers = [ORDER |-> <<>>, FILL |-> <<>>]
    /\ nextSubscriptionId = 1
    /\ eventCount = 0
    /\ eventQueue = <<>>
    /\ mutex = [held |-> FALSE, owner |-> 0]
    /\ busLog = [issued |-> {}, removed |-> {}, late |-> {}, thrown |-> 0]
    /\ cash = InitialCapital
    /\ maxPositionSize = DefaultMaxPositionSize
    /\ maxPortfolioExposure = DefaultMaxPortfolioExposure
    /\ orders = EmptyMap
    /\ positions = EmptyMap
    /\ config = QuietConfig
    /\ isRunning = FALSE
    /\ orderSubId = 0
    /\ marketPrices = EmptyMap
    /\ stack = [t \in Threads |-> <<>>]
    /\ nTasks = 0
    /\ calls = 0
    /\ subs = <<>>
    /\ ret = [n |-> 0, ok |-> FALSE,
              v |-> [within |-> FALSE, stated |-> FALSE]]
    /\ fillNet = 0
    /\ handledNet = 0
    /\ NoStrategies

\* what no step of the bus and its users changes
BusUnchanged ==
    UNCHANGED <<omVars, cash, limitVars, strategyVars, portfolio2, exVars, nTasks, subs, ret, handledNet>>

\* subscribe(cat, handler) returns: the id it returned is recorded
Subscribed(late) ==
    busLog' = [busLog EXCEPT
                 !.issued = @ \cup (RegisteredIds' \ RegisteredIds),
                 !.late = IF late THEN @ \cup (RegisteredIds' \ RegisteredIds)
                          ELSE @]

\* the ids unsubscribe is called with: those of the subscriptions, and one
\* that subscribe never returns
UnknownId == MaxSubscriptions + 1
UnsubscribeIds == RegisteredIds \cup {UnknownId}

\* unsubscribe(subscriptionId) returns
Unsubscribed(subscriptionId) ==
    busLog' = [busLog EXCEPT !.removed = @ \cup {subscriptionId}]

\* ---- calls of the caller's thread
BusSubscribeCall(cat) ==
    /\ Idle
    /\ nextSubscriptionId <= MaxSubscriptions
    /\ calls' = calls + 1
    /\ Subscribe(cat, "user")
    /\ Subscribed(FALSE)
    /\ UNCHANGED <<eventCount, stack, fillNet>>
    /\ BusUnchanged

BusUnsubscribeCall(subscriptionId) ==
    /\ Idle
    /\ calls' = calls + 1
    /\ Unsubscribe(subscriptionId)
    /\ Unsubscribed(subscriptionId)
    /\ UNCHANGED <<eventCount, stack, fillNet>>
    /\ BusUnchanged

BusPublishEvent(ev) ==
    /\ Idle
    /\ calls' = calls + 1
    /\ BusPublishCall(ev, <<>>)
    /\ UNCHANGED busVars
    /\ BusUnchanged

\* clear() on the caller's thread
clear ==
    /\ Idle
    /\ LockFree(0)
    /\ calls' = calls + 1
    /\ subscribers' = [cat \in DOMAIN subscribers |-> <<>>]
    /\ eventQueue' = <<>>
    /\ eventCount' = 0
    /\ UNCHANGED <<nextSubscriptionId, mutex, busLog, stack, fillNet>>
    /\ BusUnchanged

\* ---- a call of another thread, which takes the mutex when no one holds it
ConcurrentUnsubscribe(subscriptionId) ==
    /\ Busy(0)
    /\ ~mutex.held
    /\ Unsubscribe(subscriptionId)
    /\ Unsubscribed(subscriptionId)
    /\ UNCHANGED <<eventCount, stack, calls, fillNet>>
    /\ BusUnchanged

\* ---- a handler of a user, invoked on the caller's thread
\* the dispatch invokes its next handler: ops counts the handler's calls of
\* the bus
UserInvoke ==
    /\ Invoking(0, "user")
    /\ stack' = [stack EXCEPT
                   ![0] = <<[pc |-> "user", ev |-> Top(0).ev, ops |-> 0]>> \o @]
    /\ UNCHANGED <<busVars, eventCount, calls, fillNet>>
    /\ BusUnchanged

\* the handler's next statement is a call of the bus: the handlers call it
\* for first-level events only
InHandler ==
    /\ Busy(0)
    /\ Top(0).pc = "user"
    /\ Top(0).ev.n = 0
    /\ Top(0).ops < MaxOps

\* a dispatch of processQueue is iterating the subscribers of cat
Iterated(cat) ==
    \E i \in 1..Len(stack[0]) :
        /\ stack[0][i].pc = "dispatch"
        /\ stack[0][i].queued
        /\ stack[0][i].ev.cat = cat

\* this step changes a vector of subscribers that a dispatch of processQueue
\* is iterating: the iterators of its range-for are invalid from here on
IteratorsInvalidated ==
    \E cat \in DOMAIN subscribers :
        Iterated(cat) /\ subscribers'[cat] # subscribers[cat]

\* a dispatch of processQueue that goes on with the elements now at the
\* places it has not visited yet, up to the end it computed when it started
Rebased(f) ==
    LET visited == Len(f.done) + 1
        last == Min(Len(f.snap), Len(subscribers'[f.ev.cat]))
    IN  [f EXCEPT
           !.hs = <<Head(f.hs)>> \o
                  [k \in 1..Max(0, last - visited) |->
                      subscribers'[f.ev.cat][visited + k].h],
           !.ids = SubSeq(f.ids, 1, visited) \o
                   [k \in 1..Max(0, last - visited) |->
                      subscribers'[f.ev.cat][visited + k].id]]

\* the frames of the caller's thread after a handler's subscribe or
\* unsubscribe, the handler's own frame apart.  With invalid iterators the
\* behaviour is undefined: a dispatch of processQueue reads the elements it
\* would have read ("stale"), reads the elements now at their places
\* ("live"), or the process ends ("crash": the thread goes no further)
Outcomes == IF IteratorsInvalidated THEN {"stale", "live", "crash"} ELSE {"stale"}

OuterFrames(outcome) ==
    [i \in 1..(Len(stack[0]) - 1) |->
        LET f == stack[0][i + 1] IN
        IF /\ outcome = "live"
           /\ f.pc = "dispatch"
           /\ f.queued
           /\ subscribers'[f.ev.cat] # subscribers[f.ev.cat]
        THEN Rebased(f) ELSE f]

AfterHandlerOp(outcome) ==
    IF outcome = "crash"
    THEN stack' = [stack EXCEPT ![0] = <<[pc |-> "crashed"]>>]
    ELSE stack' = [stack EXCEPT
                     ![0] = <<[Top(0) EXCEPT !.ops = @ + 1]>>
                            \o OuterFrames(outcome)]

UserSubscribe(cat) ==
    /\ InHandler
    /\ nextSubscriptionId <= MaxSubscriptions
    /\ Subscribe(cat, "user")
    /\ Subscribed(TRUE)
    /\ \E outcome \in Outcomes : AfterHandlerOp(outcome)
    /\ UNCHANGED <<eventCount, calls, fillNet>>
    /\ BusUnchanged

UserUnsubscribe(subscriptionId) ==
    /\ InHandler
    /\ Unsubscribe(subscriptionId)
    /\ Unsubscribed(subscriptionId)
    /\ \E outcome \in Outcomes : AfterHandlerOp(outcome)
    /\ UNCHANGED <<eventCount, calls, fillNet>>
    /\ BusUnchanged

\* a handler of a first-level event publishes a second-level event
UserPublish(cat) ==
    /\ InHandler
    /\ BusPublish(0, Reaction(Top(0).ev, cat),
                  <<[Top(0) EXCEPT !.ops = @ + 1]>>)
    /\ UNCHANGED <<busVars, calls>>
    /\ BusUnchanged

\* a handler of a first-level event enqueues a second-level event
UserEnqueue(cat) ==
    /\ InHandler
    /\ LockFree(0)
    /\ Len(eventQueue) < MaxQueue
    /\ eventQueue' = Append(eventQueue, Reaction(Top(0).ev, cat))
    /\ stack' = Continue(0, <<[Top(0) EXCEPT !.ops = @ + 1]>>)
    /\ UNCHANGED <<subscribers, nextSubscriptionId, mutex, busLog, eventCount,
                   calls, fillNet>>
    /\ BusUnchanged

\* the frames of the caller's thread once its innermost handler has returned
\* to the dispatch that invoked it
Returned ==
    LET dispatch == stack[0][2] IN
    (IF Len(dispatch.hs) = 1 THEN <<>>
     ELSE <<[dispatch EXCEPT !.hs = Tail(@),
                             !.done = Append(@, Head(dispatch.hs))]>>)
    \o SubSeq(stack[0], 3, Len(stack[0]))

UserReturn ==
    /\ Busy(0)
    /\ Top(0).pc = "user"
    /\ stack' = [stack EXCEPT ![0] = Returned]
    /\ UNCHANGED <<busVars, eventCount, calls, fillNet>>
    /\ BusUnchanged

\* the handler throws: publish and processQueue have no try block, so the
\* exception leaves the dispatch, every handler and dispatch around it (none
\* of the users' handlers catches), and the caller's call; the lock_guard of
\* processQueue releases the mutex on the way
UserThrow ==
    /\ Busy(0)
    /\ Top(0).pc = "user"
    /\ stack' = [stack EXCEPT ![0] = <<>>]
    /\ mutex' = [held |-> FALSE, owner |-> 0]
    /\ busLog' = [busLog EXCEPT !.thrown = @ + 1]
    /\ UNCHANGED <<subscribers, nextSubscriptionId, eventQueue, eventCount,
                   calls, fillNet>>
    /\ BusUnchanged

NextBus ==
    \/ \E cat \in BusCategories : BusSubscribeCall(cat)
    \/ \E subscriptionId \in UnsubscribeIds : BusUnsubscribeCall(subscriptionId)
    \/ \E ev \in BusEvents : BusPublishEvent(ev)
    \/ \E ev \in BusEvents : Enqueue(ev)
    \/ \E maxEvents \in 0..MaxQueue : ProcessQueueCall(maxEvents)
    \/ ProcessQueueLoop(0)
    \/ clear
    \/ \E subscriptionId \in RegisteredIds : ConcurrentUnsubscribe(subscriptionId)
    \/ UserInvoke
    \/ \E cat \in BusCategories : UserSubscribe(cat)
    \/ \E subscriptionId \in UnsubscribeIds : UserUnsubscribe(subscriptionId)
    \/ \E cat \in BusCategories : UserPublish(cat)
    \/ \E cat \in BusCategories : UserEnqueue(cat)
    \/ UserReturn
    \/ UserThrow

SpecBus == InitBus /\ [][NextBus]_vars

\* ---- claims about the bus and its users
\* the caller's thread starts a dispatch in this step, from publish or in
\* processQueue
DispatchStarts ==
    /\ stack'[0] # stack[0]
    /\ stack'[0] # <<>>
    /\ Head(stack'[0]).pc = "dispatch"
    /\ Head(stack'[0]).done = <<>>

\* the ids of the handlers a dispatch had to invoke when it started
SnapshotIds(f) == {f.ids[k] : k \in 1..Len(f.ids)}

\* the ids of the handlers a dispatch has not invoked: those after the one
\* being invoked
NotInvoked(f) == {f.ids[k] : k \in (Len(f.done) + 2)..Len(f.ids)}

\* the i-th frame of the caller's thread is a dispatch of publish
PublishFrame(i) == stack[0][i].pc = "dispatch" /\ ~stack[0][i].queued

\* that frame is the same after the step
FrameKept(i) ==
    /\ Len(stack'[0]) > Len(stack[0]) - i
    /\ stack'[0][Len(stack'[0]) - (Len(stack[0]) - i)] = stack[0][i]

\* that frame is no longer on the stack after the step: its publish is over
FrameLeft(i) == Len(stack'[0]) <= Len(stack[0]) - i

\* C21: dispatch works on a snapshot.  A handler subscribed during a dispatch
\* by a handler of that dispatch does not join the in-flight dispatch, and is
\* invoked by every later publish of its category, one made by the
\* subscribing handler included; a handler unsubscribed during a dispatch
\* stays in the in-flight dispatches and is in no dispatch that starts later.
C21_SnapshotDispatch ==
    [][/\ (Busy(0) /\ RegisteredIds' # RegisteredIds) =>
             \A i \in 1..Len(stack[0]) : PublishFrame(i) => FrameKept(i)
       /\ DispatchStarts =>
             /\ SnapshotIds(Head(stack'[0])) \cap busLog'.removed = {}
             /\ busLog'.late \cap
                  {subscribers'[Head(stack'[0]).ev.cat][k].id :
                      k \in 1..Len(subscribers'[Head(stack'[0]).ev.cat])}
                  \subseteq SnapshotIds(Head(stack'[0]))
       /\ \A i \in 1..Len(stack[0]) :
             (PublishFrame(i) /\ FrameLeft(i)) =>
                 NotInvoked(stack[0][i]) \cap busLog.late = {}]_vars

\* C22: once unsubscribe(id) has returned, id is registered in no category
\* and no dispatch that starts, from publish or in processQueue, has the
\* handler registered under id among those it invokes; an unsubscribe with an
\* id that is not registered changes the subscribers of no category.
C22_UnsubscribeSafety ==
    [][/\ RegisteredIds' \cap busLog'.removed = {}
       /\ DispatchStarts =>
             SnapshotIds(Head(stack'[0])) \cap busLog'.removed = {}
       /\ \A id \in busLog'.removed \ busLog.removed :
             id \notin RegisteredIds => subscribers' = subscribers]_vars

\* a dispatch has started with one handler to invoke, after the unsubscribe
\* of another handler's id has returned
C22_Witness ==
    /\ Busy(0)
    /\ Top(0).pc = "dispatch"
    /\ Top(0).done = <<>>
    /\ Len(Top(0).ids) = 1
    /\ busLog.removed \cap busLog.issued # {}
    /\ UnknownId \in busLog.removed

\* a handler's call of the bus (subscribe, unsubscribe, publish or enqueue)
\* takes place in this step
HandlerCalls ==
    /\ Busy(0)
    /\ Top(0).pc = "user"
    /\ stack'[0] # stack[0]
    /\ stack'[0] # <<>>
    /\ Len(stack'[0]) >= Len(stack[0]) \/ Head(stack'[0]).pc = "crashed"

\* C23: a handler that calls publish, subscribe, unsubscribe or enqueue while
\* it is being dispatched, from publish or from processQueue, gets through
\* the call, and the dispatches around it are left as they were, with the
\* same handlers still to invoke.
C23_ReentrantCallsLeaveOuterDispatch ==
    [][HandlerCalls =>
          /\ RestKept(0, 1)
          /\ stack'[0][Len(stack'[0]) - Len(stack[0]) + 1] =
                [Top(0) EXCEPT !.ops = @ + 1]]_vars

\* C24: a handler that throws is contained.  The dispatch that invoked it
\* goes on as after a handler that returns: the remaining handlers of its
\* snapshot are invoked, and the publisher continues.
C24_HandlerFailureContained ==
    [][busLog'.thrown # busLog.thrown => stack'[0] = Returned]_vars

\* an event is enqueued in this step: it joins the queue at its tail and no
\* handler is invoked
EnqueueAppends ==
    Len(eventQueue') > Len(eventQueue) =>
        /\ SubSeq(eventQueue', 1, Len(eventQueue)) = eventQueue
        /\ Len(eventQueue') = Len(eventQueue) + 1
        /\ ~DispatchStarts
        /\ Len(stack'[0]) <= Len(stack[0])

\* processQueue removes an event in this step: the one at the head, which it
\* dispatches to the subscribers of its category, with fewer than the maximum
\* dispatched before; the others stay queued in their order
DrainTakesHead ==
    (Busy(0) /\ Len(eventQueue') < Len(eventQueue)) =>
        /\ Top(0).pc = "process_queue"
        /\ Top(0).maxEvents = 0 \/ Top(0).processed < Top(0).maxEvents
        /\ eventQueue' = Tail(eventQueue)
        /\ stack'[0][Len(stack'[0]) - Len(stack[0]) + 1] =
              [Top(0) EXCEPT !.processed = @ + 1]
        /\ SubscribedHandlers(Head(eventQueue).cat) # <<>> =>
              /\ DispatchStarts
              /\ Head(stack'[0]).ev = Head(eventQueue)
              /\ Head(stack'[0]).ids = SubscribedIds(Head(eventQueue).cat)

\* processQueue returns in this step
DrainReturns ==
    /\ Busy(0)
    /\ Top(0).pc = "process_queue"
    /\ Len(stack'[0]) < Len(stack[0])

\* C25 as stated: enqueue(event) invokes no handler and appends the event at
\* the tail of the queue; processQueue(max) with max > 0 dispatches exactly
\* min(max, length of the queue at the call) events, in the order in which
\* they were enqueued, and leaves the others queued in the same order.
C25_DrainsMinOfMaxAndLength ==
    [][/\ EnqueueAppends
       /\ DrainTakesHead
       /\ (DrainReturns /\ Top(0).maxEvents > 0) =>
             /\ Top(0).processed = Min(Top(0).maxEvents, Top(0).len0)
             /\ eventQueue' = eventQueue]_vars

\* C25, amended: enqueue(event) invokes no handler and appends the event at
\* the tail of the queue; processQueue(max) with max > 0 removes the events
\* from the head one at a time, dispatches each, and returns once it has
\* dispatched max events or the queue is empty, the events that handlers
\* enqueued during the drain included; the events it has not dispatched stay
\* queued in the same order.
C25_DrainsUntilMaxOrEmpty ==
    [][/\ EnqueueAppends
       /\ DrainTakesHead
       /\ (DrainReturns /\ Top(0).maxEvents > 0) =>
             /\ Top(0).processed = Top(0).maxEvents \/ eventQueue = <<>>
             /\ Top(0).processed <= Top(0).maxEvents
             /\ eventQueue' = eventQueue
       /\ Len(eventQueue') = Len(eventQueue) => eventQueue' = eventQueue]_vars

\* processQueue(2), called with one event queued, has dispatched that event
\* and the one a handler enqueued during its dispatch
C25_Witness ==
    /\ Busy(0)
    /\ Top(0).pc = "process_queue"
    /\ Top(0).maxEvents = 2
    /\ Top(0).len0 = 1
    /\ Top(0).processed = 2

\* processQueue takes the event at the head of the queue in this step
DrainsEvent ==
    /\ Busy(0)
    /\ Top(0).pc = "process_queue"
    /\ eventQueue # <<>>
    /\ eventQueue' = Tail(eventQueue)

\* C26: processQueue dispatches each event it drains as publish would: the
\* handlers subscribed to its category are invoked in the order of their
\* subscription from a snapshot taken when the dispatch starts, and the
\* processed-event counter grows by one.
C26_DrainDispatchesAsPublish ==
    [][DrainsEvent =>
          /\ stack'[0] = DispatchFrame(Head(eventQueue))
                         \o <<[Top(0) EXCEPT !.processed = @ + 1]>>
                         \o Tail(stack[0])
          /\ eventCount' = eventCount + 1]_vars

\* C27: subscription ids are unique.  Over any sequence of subscribe,
\* unsubscribe and clear, the id a subscribe returns is none that an earlier
\* subscribe returned, the subscriptions removed or cleared since included;
\* no two subscriptions registered have the same id.
C27_SubscriptionIdsUnique ==
    [][/\ \A id \in RegisteredIds' \ RegisteredIds : id \notin busLog.issued
       /\ \A cat \in DOMAIN subscribers :
             Len(subscribers'[cat]) > Len(subscribers[cat]) =>
                subscribers'[cat][Len(subscribers'[cat])].id
                    \notin (busLog.issued \cup RegisteredIds)
       /\ RegisteredIds' \subseteq busLog'.issued]_vars

\* subscribe has returned 2 after the bus, with subscription 1, was cleared
C27_Witness ==
    /\ ~Busy(0)
    /\ busLog.issued = {1, 2}
    /\ busLog.removed = {}
    /\ RegisteredIds = {2}

\* ------------------------------------------- the risk check and the fills
\* some thread is between the two Fill handlers of a dispatch: the
\* OrderManager has applied the Fill to the position of its symbol and the
\* Portfolio has not yet applied it to cash
FillHalfApplied ==
    \E t \in Threads : \E i \in 1..Len(stack[t]) :
        /\ stack[t][i].pc = "dispatch"
        /\ stack[t][i].ev.cat = "FILL"
        /\ \E k \in 1..Len(stack[t][i].done) : stack[t][i].done[k] = "om_fill"
        /\ \E k \in 1..Len(stack[t][i].hs) : stack[t][i].hs[k] = "pf_fill"

\* Portfolio::submitOrder makes its pre-trade check in this step
RiskCheckMade ==
    /\ ~Busy(0)
    /\ \/ ret'.n = ret.n + 1
       \/ stack'[0] # <<>> /\ Head(stack'[0]).pc = "om_submit"

\* a fill task of the exchange publishes a Fill on its own thread, while the
\* caller's thread submits orders to the Portfolio
FillTaskPublish(t, ev) ==
    /\ t # 0
    /\ ~Busy(t)
    /\ eventCount < MaxRiskFills
    /\ LockFree(t)
    /\ stack' = [stack EXCEPT ![t] = DispatchFrame(ev)]
    /\ eventCount' = eventCount + 1
    /\ fillNet' = fillNet + SignedNotional(ev)
    /\ UNCHANGED <<busVars, omVars, cash, limitVars, strategyVars, portfolio2, exVars, nTasks, calls,
                   subs, ret, handledNet>>

\* the orders are submitted with a mark price for every symbol
SnapshotMarks == {[symbol \in Symbols |-> MaxFillPrice]}

\* the fills are of the symbol of the orders
SnapshotFills == {ev \in RiskFills : ev.symbol = "A"}

NextSnapshot ==
    \/ \E t \in Threads : \E ev \in SnapshotFills : FillTaskPublish(t, ev)
    \/ \E a \in RiskArgs : \E marks \in SnapshotMarks :
          PortfolioSubmitOrder(a, marks)
    \/ \E t \in Threads : OMOnFillEvent(t)
    \/ \E t \in Threads : PortfolioOnFillEvent(t)
    \/ \E t \in Threads : OMSubmitOrder(t)
    \/ \E t \in Threads : OMPublishPendingNew(t)
    \/ \E t \in Threads : OMOnOrderEvent(t)
    \/ \E t \in Threads : PortfolioReturn(t)

SpecSnapshot == InitReplay /\ [][NextSnapshot]_vars

\* C28: the pre-trade check of a Portfolio::submitOrder, called on one thread
\* while the fills are handled on another, never reads a state in which a
\* Fill is applied to the position of its symbol and not yet to cash: the
\* cash and the positions it reads reflect the same fills.
C28_ConsistentRiskSnapshot == [][RiskCheckMade => ~FillHalfApplied]_vars

\* ------------------------------------------ synchronous fills of a submit
\* The exchange is started with instant fills, then the Portfolio is
\* constructed: a PENDING_NEW published by a submitOrder is answered, and the
\* order filled, on the submitting thread before submitOrder returns.
\* with rates strictly between never and always, every draw of the exchange
\* has both outcomes
InstantConfigs ==
    {c \in Configs : /\ c.instantFills
                     /\ RateOutcomes(c.rejectionRate) = BOOLEAN
                     /\ RateOutcomes(c.partialFillRate) = BOOLEAN}

InstantArgs == OrderArgs(OrderIds, {"A"}, Sides, {"LIMIT"}, {MaxPrice}, {MaxQty})

InitInstant ==
    /\ config \in InstantConfigs
    /\ InitExchangeFirst

\* the steps of the caller's thread inside a call
InstantStep ==
    \/ OMSubmitOrder(0)
    \/ OMPublishPendingNew(0)
    \/ OMOnOrderEvent(0)
    \/ ExOnOrderEvent(0)
    \/ ExSubmitOrder(0)
    \/ ExScheduleFill(0)
    \/ ProcessFillStart(0)
    \/ ProcessFillAfterFirst(0)
    \/ ProcessFillRemaining(0)
    \/ ProcessFillFilled(0)
    \/ OMOnFillEvent(0)
    \/ PortfolioOnFillEvent(0)
    \/ PortfolioReturn(0)

NextInstant ==
    \/ \E a \in InstantArgs : PortfolioSubmitOrder(a, EmptyMap)
    \/ InstantStep

\* the control flow of OrderManager::onFillEvent: it is entered when its
\* mutex is free, and returns to the dispatch
OMOnFillEventReturns(t) ==
    /\ Invoking(t, "om_fill")
    /\ ~OrderManagerLocked
    /\ stack' = Continue(t, Invoked(t))

\* the steps of InstantStep, that of OrderManager::onFillEvent by its control
\* flow alone (it is enabled in the same states)
InstantProgress ==
    \/ OMSubmitOrder(0)
    \/ OMPublishPendingNew(0)
    \/ OMOnOrderEvent(0)
    \/ ExOnOrderEvent(0)
    \/ ExSubmitOrder(0)
    \/ ExScheduleFill(0)
    \/ ProcessFillStart(0)
    \/ ProcessFillAfterFirst(0)
    \/ ProcessFillRemaining(0)
    \/ ProcessFillFilled(0)
    \/ OMOnFillEventReturns(0)
    \/ PortfolioOnFillEvent(0)
    \/ PortfolioReturn(0)

\* the caller's thread is scheduled: when it can take the next step of its
\* call, which changes its stack, it takes it
SpecInstant ==
    InitInstant /\ [][NextInstant]_vars /\ WF_stack(InstantProgress)

\* the caller's thread is in a Portfolio::submitOrder that passed the check
Submitting ==
    Busy(0) /\ stack[0][Len(stack[0])].pc = "pf_return"

EventKinds == {"Trade", "Quote", "Order", "Fill"}

\* the hook of Strategy that handle<Kind>Event calls
Hook(kind) ==
    CASE kind = "Trade" -> "onTradeEvent"
      [] kind = "Quote" -> "onQuoteEvent"
      [] kind = "Order" -> "onOrderEvent"
      [] kind = "Fill"  -> "onFillEvent"

\* a variant that calls the hook whatever the running flag says
DeliversAlways(st) == TRUE

\* Strategy::handleTradeEvent, handleQuoteEvent, handleOrderEvent,
\* handleFillEvent: the hook is called if the strategy is running
Delivers(st) == st.isRunning

\* Strategy::start, with SMAStrategy::onStart
StrategyStart(st) ==
    IF ~st.isRunning
    THEN [st EXCEPT !.isRunning = TRUE, !.starts = @ + 1, !.onStart = @ + 1,
                    !.prices = <<>>, !.previousCross = "NONE", !.seen = <<>>]
    ELSE [st EXCEPT !.starts = @ + 1]

\* Strategy::stop
StrategyStop(st) ==
    IF st.isRunning
    THEN [st EXCEPT !.isRunning = FALSE, !.stops = @ + 1, !.onStop = @ + 1]
    ELSE [st EXCEPT !.stops = @ + 1]

RECURSIVE StartEach(_, _)
StartEach(seq, state) ==
    IF seq = <<>> THEN state
    ELSE StartEach(Tail(seq), [state EXCEPT ![Head(seq)] = StrategyStart(@)])

RECURSIVE StopEach(_, _)
StopEach(seq, state) ==
    IF seq = <<>> THEN state
    ELSE StopEach(Tail(seq), [state EXCEPT ![Head(seq)] = StrategyStop(@)])

Registered == {strategies[i] : i \in DOMAIN strategies}

\* std::find_if over strategies_: the first strategy of that name
FirstNamed(name) ==
    CHOOSE i \in DOMAIN strategies :
        /\ strategies[i] = name
        /\ \A j \in 1..(i - 1) : strategies[j] # name

Erase(seq, i) == SubSeq(seq, 1, i - 1) \o SubSeq(seq, i + 1, Len(seq))

\* everything but the manager, its strategies and the caller's thread is left alone
StrategyUnchanged ==
    UNCHANGED <<busVars, eventCount, omVars, cash, limitVars, exVars, nTasks,
                subs, ret, fillNet, handledNet, portfolio2>>

\* the caller's thread is outside every call, and may make another
ManagerIdle ==
    /\ ~Busy(0)
    /\ calls < MaxStrategyCalls
    /\ \A s \in StrategyNames : ~Wanted(strategyState[s])

addStrategy(s) ==
    /\ ManagerIdle
    /\ Len(strategies) < MaxStrategies
    /\ calls' = calls + 1
    /\ strategies' = Append(strategies, s)
    /\ UNCHANGED <<strategyState, stack>>
    /\ StrategyUnchanged

removeStrategy(name) ==
    /\ ManagerIdle
    /\ calls' = calls + 1
    /\ IF name \in Registered
       THEN /\ strategyState' = [strategyState EXCEPT ![name] = StrategyStop(@)]
            /\ strategies' = Erase(strategies, FirstNamed(name))
       ELSE UNCHANGED <<strategies, strategyState>>
    /\ UNCHANGED stack
    /\ StrategyUnchanged

startAll ==
    /\ ManagerIdle
    /\ calls' = calls + 1
    /\ strategyState' = StartEach(strategies, strategyState)
    /\ UNCHANGED <<strategies, stack>>
    /\ StrategyUnchanged

stopAll ==
    /\ ManagerIdle
    /\ calls' = calls + 1
    /\ strategyState' = StopEach(strategies, strategyState)
    /\ UNCHANGED <<strategies, stack>>
    /\ StrategyUnchanged

startStrategy(name) ==
    /\ ManagerIdle
    /\ calls' = calls + 1
    /\ IF name \in Registered
       THEN strategyState' = [strategyState EXCEPT ![name] = StrategyStart(@)]
       ELSE UNCHANGED strategyState
    /\ UNCHANGED <<strategies, stack>>
    /\ StrategyUnchanged

stopStrategy(name) ==
    /\ ManagerIdle
    /\ calls' = calls + 1
    /\ IF name \in Registered
       THEN strategyState' = [strategyState EXCEPT ![name] = StrategyStop(@)]
       ELSE UNCHANGED strategyState
    /\ UNCHANGED <<strategies, stack>>
    /\ StrategyUnchanged

\* the owner of a strategy calls start() or stop() on it, registered or not
StrategyStartCall(s) ==
    /\ ManagerIdle
    /\ calls' = calls + 1
    /\ strategyState' = [strategyState EXCEPT ![s] = StrategyStart(@)]
    /\ UNCHANGED <<strategies, stack>>
    /\ StrategyUnchanged

StrategyStopCall(s) ==
    /\ ManagerIdle
    /\ calls' = calls + 1
    /\ strategyState' = [strategyState EXCEPT ![s] = StrategyStop(@)]
    /\ UNCHANGED <<strategies, stack>>
    /\ StrategyUnchanged

\* the range-for of a fan-out over strategies_, from the slot i to the end it
\* took when the loop began; at and got are history: what
\* was registered and who was running when the event was received, and the
\* hooks called for it so far
FanOutFrame(kind, n) ==
    [pc |-> "fanout", kind |-> kind, n |-> n, i |-> 1, end |-> Len(strategies),
     at |-> [strategies |-> strategies,
             running |-> {s \in StrategyNames : strategyState[s].isRunning}],
     got |-> <<>>]

\* the EventBus hands the manager a TradeEvent or a QuoteEvent
onMarketDataEvent(kind) ==
    /\ ~Busy(0)
    /\ kind \in {"Trade", "Quote"}
    /\ stack' = [stack EXCEPT ![0] = <<FanOutFrame(kind, 0)>>]
    /\ UNCHANGED <<strategyVars, portfolio2, calls>>
    /\ StrategyUnchanged

onOrderEvent ==
    /\ ~Busy(0)
    /\ stack' = [stack EXCEPT ![0] = <<FanOutFrame("Order", 0)>>]
    /\ UNCHANGED <<strategyVars, portfolio2, calls>>
    /\ StrategyUnchanged

onFillEvent ==
    /\ ~Busy(0)
    /\ stack' = [stack EXCEPT ![0] = <<FanOutFrame("Fill", 0)>>]
    /\ UNCHANGED <<strategyVars, portfolio2, calls>>
    /\ StrategyUnchanged

InFanOut ==
    /\ Busy(0)
    /\ Top(0).pc = "fanout"
    /\ Top(0).i <= Top(0).end
    /\ Top(0).i <= Len(strategies)

\* the frame after the strategy at i had its turn
Turn(f, called) ==
    [f EXCEPT !.i = @ + 1,
              !.got = IF called THEN Append(@, <<strategies[f.i], Hook(f.kind)>>)
                      ELSE @]

\* one turn of the loop: handle<Kind>Event of the next strategy, whose hook,
\* if called, returns
FanOutTurn ==
    /\ InFanOut
    /\ stack' = Continue(0, <<Turn(Top(0), Delivers(strategyState[strategies[Top(0).i]]))>>)
    /\ UNCHANGED <<strategyVars, portfolio2, calls>>
    /\ StrategyUnchanged

\* one turn of the loop whose hook submits an order: an Order or a Fill event
\* of that order reaches the manager before the hook returns
FanOutTurnSubmits(kind) ==
    /\ InFanOut
    /\ Top(0).n = 0
    /\ Delivers(strategyState[strategies[Top(0).i]])
    /\ stack' = Continue(0, <<FanOutFrame(kind, 1), Turn(Top(0), TRUE)>>)
    /\ UNCHANGED <<strategyVars, portfolio2, calls>>
    /\ StrategyUnchanged

\* the loop is over: the handler returns
FanOutReturn ==
    /\ Busy(0)
    /\ Top(0).pc = "fanout"
    /\ Top(0).i > Top(0).end
    /\ stack' = [stack EXCEPT ![0] = Tail(@)]
    /\ UNCHANGED <<strategyVars, portfolio2, calls>>
    /\ StrategyUnchanged

InitStrategy ==
    /\ config = QuietConfig
    /\ InitPortfolioFirst

NextStrategy ==
    \/ \E s \in StrategyNames : addStrategy(s)
    \/ \E s \in StrategyNames : removeStrategy(s)
    \/ startAll
    \/ stopAll
    \/ \E s \in StrategyNames : startStrategy(s)
    \/ \E s \in StrategyNames : stopStrategy(s)
    \/ \E s \in StrategyNames : StrategyStartCall(s)
    \/ \E s \in StrategyNames : StrategyStopCall(s)
    \/ \E kind \in {"Trade", "Quote"} : onMarketDataEvent(kind)
    \/ onOrderEvent
    \/ onFillEvent
    \/ FanOutTurn
    \/ \E kind \in {"Order", "Fill"} : FanOutTurnSubmits(kind)
    \/ FanOutReturn

SpecStrategy == InitStrategy /\ [][NextStrategy]_vars

\* the hooks an event must have called once the first n registered strategies
\* had their turn: one per registration that was running when the event was
\* received, in registration order
Expected(f, n) ==
    LET WasRunning(s) == s \in f.at.running
        due == SelectSeq(SubSeq(f.at.strategies, 1, n), WasRunning)
    IN  [j \in 1..Len(due) |-> <<due[j], Hook(f.kind)>>]

FanOuts == {k \in 1..Len(stack[0]) : stack[0][k].pc = "fanout"}

LoopOutcomes(invalidated) ==
    IF invalidated THEN {"goes on", "fails"} ELSE {"goes on"}

AfterHook(outcome) ==
    IF outcome = "fails"
    THEN stack' = [stack EXCEPT ![0] = <<[pc |-> "crashed"]>>]
    ELSE stack' = Continue(0, <<Turn(Top(0), TRUE)>>)

\* one turn of the loop whose hook calls removeStrategy(name)
FanOutTurnRemoves(name) ==
    /\ InFanOut
    /\ calls < MaxStrategyCalls
    /\ Delivers(strategyState[strategies[Top(0).i]])
    /\ IF name \in Registered
       THEN /\ strategyState' = [strategyState EXCEPT ![name] = StrategyStop(@)]
            /\ strategies' = Erase(strategies, FirstNamed(name))
       ELSE UNCHANGED <<strategies, strategyState>>
    /\ \E outcome \in LoopOutcomes(name \in Registered) : AfterHook(outcome)
    /\ calls' = calls + 1
    /\ StrategyUnchanged

\* one turn of the loop whose hook calls addStrategy(s)
FanOutTurnAdds(s) ==
    /\ InFanOut
    /\ calls < MaxStrategyCalls
    /\ Delivers(strategyState[strategies[Top(0).i]])
    /\ Len(strategies) < MaxStrategies
    /\ strategies' = Append(strategies, s)
    /\ \E outcome \in LoopOutcomes(TRUE) : AfterHook(outcome)
    /\ calls' = calls + 1
    /\ UNCHANGED strategyState
    /\ StrategyUnchanged

\* the loop has not reached the end it took, and its slot holds no strategy
\* any more
AtRemovedSlot ==
    /\ Busy(0)
    /\ Top(0).pc = "fanout"
    /\ Top(0).i <= Top(0).end
    /\ Top(0).i > Len(strategies)

\* one turn of the loop on a slot whose shared_ptr was destroyed: the call
\* through it fails, or finds a strategy that is not running
FanOutTurnRemovedSlot ==
    /\ AtRemovedSlot
    /\ \/ stack' = [stack EXCEPT ![0] = <<[pc |-> "crashed"]>>]
       \/ stack' = Continue(0, <<[Top(0) EXCEPT !.i = @ + 1]>>)
    /\ UNCHANGED <<strategyVars, portfolio2, calls>>
    /\ StrategyUnchanged

NextReentrant ==
    \/ \E s \in StrategyNames : addStrategy(s)
    \/ startAll
    \/ \E kind \in {"Trade", "Quote"} : onMarketDataEvent(kind)
    \/ onOrderEvent
    \/ onFillEvent
    \/ FanOutTurn
    \/ \E s \in StrategyNames : FanOutTurnRemoves(s)
    \/ \E s \in StrategyNames : FanOutTurnAdds(s)
    \/ FanOutTurnRemovedSlot
    \/ FanOutReturn

SpecReentrant == InitStrategy /\ [][NextReentrant]_vars

Times(s, seq) == Cardinality({j \in DOMAIN seq : seq[j] = s})

\* the hooks of s an event has called
Called(f, s) == Cardinality({j \in DOMAIN f.got : f.got[j][1] = s})

\* C31: while hooks call removeStrategy and addStrategy on the manager that
\* is fanning an event out, the fan-out does not fail, never visits a slot
\* that holds no strategy any more, and, when it is over, has called the hook
\* of every strategy that was registered and running when the event came and
\* is so still, once per registration it had.
C31_ReentrantRemovalIsSafe ==
    /\ stack[0] # <<[pc |-> "crashed"]>>
    /\ ~AtRemovedSlot
    /\ \A k \in FanOuts :
          stack[0][k].i > stack[0][k].end =>
             \A s \in Registered \cap stack[0][k].at.running :
                (strategyState[s].isRunning /\ Times(s, stack[0][k].at.strategies) > 0)
                    => Called(stack[0][k], s) = Times(s, stack[0][k].at.strategies)

\* ------------------------------------------- events for orders never submitted
\* Order and Fill events are published for ids the OrderManager has no
\* record of: nothing was submitted through it.

StrayOrders ==
    {OrderEvent(id, "A", side, "LIMIT", status, 1, MaxQty, filled) :
        id \in OrderIds, side \in Sides, status \in {"NEW", "PARTIALLY_FILLED"},
        filled \in 0..1}

StrayFills ==
    {FillEvent(id, symbol, side, 1, quantity) :
        id \in OrderIds, symbol \in Symbols, side \in Sides, quantity \in 1..MaxQty}

NextStray ==
    \/ \E ev \in StrayOrders \cup StrayFills : DriverPublish(ev, MaxStrayEvents)
    \/ \E t \in Threads : OMOnOrderEvent(t)
    \/ \E t \in Threads : OMOnFillEvent(t)
    \/ \E t \in Threads : PortfolioOnFillEvent(t)

SpecStray == InitReplay /\ [][NextStray]_vars

\* thread t runs handler h in this step, for an event whose order id has no record
HandlesUnknown(t, h) ==
    /\ Invoking(t, h)
    /\ stack'[t] # stack[t]
    /\ Top(t).ev.id \notin DOMAIN orders

HeldQty(ps, symbol) == IF symbol \in DOMAIN ps THEN ps[symbol].quantity ELSE 0

\* C32: OrderManager::onFillEvent for an order id without a record adds the
\* signed fill quantity to the position of the fill's symbol, which it creates
\* if there is none, and leaves the order records as they are;
\* OrderManager::onOrderEvent for an order id without a record creates one
\* with the status and the filled quantity of the event.
C32_UnknownOrderId ==
    [][\A t \in Threads :
        /\ HandlesUnknown(t, "om_fill") =>
              /\ orders' = orders
              /\ Top(t).ev.symbol \in DOMAIN positions'
              /\ HeldQty(positions', Top(t).ev.symbol)
                    = HeldQty(positions, Top(t).ev.symbol)
                        + (IF Top(t).ev.side = "BUY" THEN Top(t).ev.quantity
                           ELSE -Top(t).ev.quantity)
              /\ \A symbol \in DOMAIN positions \ {Top(t).ev.symbol} :
                    positions'[symbol] = positions[symbol]
        /\ HandlesUnknown(t, "om_order") =>
              /\ DOMAIN orders' = DOMAIN orders \cup {Top(t).ev.id}
              /\ orders'[Top(t).ev.id].status = Top(t).ev.status
              /\ orders'[Top(t).ev.id].filled = Top(t).ev.filled
              /\ positions' = positions]_vars

\* two fills were applied to the position of A and no record was made for
\* o2; the record of o1 is the one an Order event created, untouched by a fill
C32_Witness ==
    /\ ~Busy(0)
    /\ "o2" \notin DOMAIN orders
    /\ "A" \in DOMAIN positions
    /\ positions["A"].quantity = -2
    /\ "o1" \in DOMAIN orders
    /\ orders["o1"].status = "NEW"
    /\ orders["o1"].filled = 1

\* ------------------------------------------------ Position.applyFill reference
Sign(x) == IF x > 0 THEN 1 ELSE IF x < 0 THEN -1 ELSE 0

\* the position the specified rules give: quantity, average and realized P&L
\* after a fill of fillQuantity at fillPrice on the position p
ReferenceFill(p, side, fillQuantity, fillPrice) ==
    LET s == IF side = "BUY" THEN fillQuantity ELSE -fillQuantity
        newQty == p.quantity + s
        closed == Min(Abs(s), Abs(p.quantity))
    IN  IF p.quantity = 0
        THEN [quantity |-> s, avg |-> RInt(fillPrice), realized |-> p.realized]
        ELSE IF Sign(p.quantity) = Sign(s)
        THEN [quantity |-> newQty,
              avg |-> FDiv(FAdd(FMul(p.avg, RInt(p.quantity)),
                                FMul(RInt(fillPrice), RInt(s))),
                           RInt(newQty)),
              realized |-> p.realized]
        ELSE [quantity |-> newQty,
              avg |-> IF Sign(newQty) = Sign(s) THEN RInt(fillPrice) ELSE p.avg,
              realized |->
                  FAdd(p.realized,
                       IF p.quantity > 0
                       THEN FMul(RInt(closed), FSub(RInt(fillPrice), p.avg))
                       ELSE FMul(RInt(closed), FSub(p.avg, RInt(fillPrice))))]

\* the position of the symbol, as OrderManager::onFillEvent finds or creates it
PositionOf(ps, symbol) ==
    IF symbol \in DOMAIN ps THEN ps[symbol] ELSE NewPosition

\* C33: every fill that OrderManager::onFillEvent applies to a position leaves
\* it with the quantity, the average price and the realized P&L of the
\* reference: a fill in the direction of the position, or on a flat one, adds
\* to the quantity and sets the average to the quantity-weighted mean (the
\* fill price if flat); an opposing fill realizes the P&L of the closed
\* quantity and sets the average to the fill price exactly when the sign of
\* the quantity flips.
C33_ApplyFillAgreesWithReference ==
    [][\A t \in Threads :
        (Invoking(t, "om_fill") /\ stack'[t] # stack[t]) =>
            LET ev == Top(t).ev
                ref == ReferenceFill(PositionOf(positions, ev.symbol), ev.side,
                                     ev.quantity, ev.price)
                now == positions'[ev.symbol]
            IN  /\ now.quantity = ref.quantity
                /\ now.avg = ref.avg
                /\ now.realized = ref.realized]_vars

\* a long position of 1 bought at 1 met a sale of 2 at 2: it is short 1 at
\* 2, with 1 realized (or a short one sold at 2 was reduced at 1)
C33_Witness ==
    /\ ~Busy(0)
    /\ "A" \in DOMAIN positions
    /\ positions["A"].quantity = -1
    /\ positions["A"].avg = RInt(2)
    /\ positions["A"].realized = RInt(1)

\* ------------------------------------------------------------- SMAStrategy
\* One SMAStrategy trades the symbol A through the Portfolio, on an exchange
\* that fills at once, in full, without slippage and without rejecting.
\* Trade events are handed to the strategy one at a time.

SmaNames == {"sma1"}
SmaSymbol == "A"

\* prices_ after push_back and, beyond slowPeriod_ entries, pop_front
SmaWindow(prices, price) ==
    LET pushed == Append(prices, price)
    IN  IF Len(pushed) > SmaSlowPeriod THEN Tail(pushed) ELSE pushed

\* the sum of the last k prices, added from the back
RECURSIVE SumBack(_, _)
SumBack(prices, k) ==
    IF k = 0 THEN RInt(0)
    ELSE FAdd(SumBack(prices, k - 1), RInt(prices[Len(prices) - k + 1]))

calculateSMA(prices, period) ==
    IF Len(prices) < period THEN RInt(0)
    ELSE FDiv(SumBack(prices, period), RInt(period))

\* a variant that orders the position size whatever the position is
SmaOrderQtyOfFlat(side, currentQty) == SmaPositionSize

\* orderQty of the golden cross and of the death cross
SmaOrderQty(side, currentQty) ==
    IF side = "BUY" THEN SmaPositionSize - currentQty
    ELSE Abs(-SmaPositionSize - currentQty)

\* SMAStrategy::onTradeEvent, for a trade of the strategy's symbol, up to the
\* call of submitOrder: the strategy s with state st, the position currentQty
SmaAfterTrade(s, st, price, currentQty) ==
    LET prices == SmaWindow(st.prices, price)
        fastSMA == calculateSMA(prices, SmaFastPeriod)
        slowSMA == calculateSMA(prices, SmaSlowPeriod)
        currentCross == IF ~RLeq(fastSMA, slowSMA) THEN "FAST_ABOVE" ELSE "FAST_BELOW"
        crossed == st.previousCross # "NONE" /\ currentCross # st.previousCross
        side == IF currentCross = "FAST_ABOVE" THEN "BUY" ELSE "SELL"
        received == [st EXCEPT !.prices = prices, !.seen = Append(@, price),
                               !.q = currentQty]
    IN  IF Len(prices) < SmaSlowPeriod THEN received
        ELSE IF fastSMA = RInt(0) \/ slowSMA = RInt(0) THEN received
        ELSE IF crossed /\ (\/ currentCross = "FAST_ABOVE" /\ currentQty <= 0
                            \/ currentCross = "FAST_BELOW" /\ currentQty >= 0)
        THEN [received EXCEPT
                !.previousCross = currentCross,
                !.orderCounter = @ + 1,
                !.want = [n |-> ret.n, count |-> Len(received.seen),
                          id |-> <<s, st.orderCounter + 1>>,
                          side |-> side, type |-> "MARKET", price |-> price,
                          quantity |-> SmaOrderQty(side, currentQty)]]
        ELSE [received EXCEPT !.previousCross = currentCross]

\* Strategy::handleTradeEvent and SMAStrategy::onTradeEvent up to submitOrder
SmaOnTradeEvent(s, symbol, price) ==
    /\ ~Busy(0)
    /\ \A o \in StrategyNames : ~Wanted(strategyState[o])
    /\ Len(strategyState[s].seen) < MaxSmaPrices
    /\ strategyState' =
          IF Delivers(strategyState[s]) /\ symbol = SmaSymbol
          THEN [strategyState EXCEPT
                  ![s] = SmaAfterTrade(s, @, price, PositionQty(SmaSymbol))]
          ELSE strategyState
    /\ UNCHANGED <<strategies, stack, calls>>
    /\ StrategyUnchanged

\* Strategy::submitOrder: the order goes to Portfolio::submitOrder with the
\* trade's price as the only mark
SmaSubmit(s) ==
    /\ Wanted(strategyState[s])
    /\ LET w == strategyState[s].want IN
       PortfolioSubmitOrder([id |-> w.id, symbol |-> SmaSymbol, side |-> w.side,
                             type |-> w.type, price |-> w.price,
                             quantity |-> w.quantity],
                            [x \in {SmaSymbol} |-> w.price])

\* processFill up to the first Fill, where the double that applySlippage
\* returns is a whole number
ProcessFillStartExact(t) ==
    /\ Busy(t)
    /\ Top(t).pc = "pf_start"
    /\ LET a == Top(t).a
           slipped == applySlippage(a.symbol, a.side, a.price)
           fillPrice == IF a.type = "MARKET" THEN slipped[1] ELSE a.price
       IN  /\ a.type = "MARKET" => slipped[2] = 1
           /\ ~(TRUE \in shouldPartialFill)
           /\ ExPublish(t, Top(t).sub,
                        FillEvent(a.id, a.symbol, a.side, fillPrice, a.quantity),
                        <<[pc |-> "pf_filled_first", a |-> a, sub |-> Top(t).sub,
                           fillPrice |-> fillPrice, fillQty |-> a.quantity]>>)
    /\ UNCHANGED <<busVars, omVars, cash, limitVars, strategyVars, portfolio2, exVars, nTasks,
                   calls, ret, handledNet>>

InitSma ==
    /\ config = QuietConfig
    /\ InitExchangeFirst

NextSma ==
    \/ \E s \in SmaNames : StrategyStartCall(s)
    \/ \E s \in SmaNames : StrategyStopCall(s)
    \/ \E s \in SmaNames : \E symbol \in Symbols : \E price \in 1..MaxSmaPrice :
          SmaOnTradeEvent(s, symbol, price)
    \/ \E s \in SmaNames : SmaSubmit(s)
    \/ OMSubmitOrder(0)
    \/ OMPublishPendingNew(0)
    \/ OMOnOrderEvent(0)
    \/ ExOnOrderEvent(0)
    \/ ExSubmitOrder(0)
    \/ ExScheduleFill(0)
    \/ ProcessFillStartExact(0)
    \/ ProcessFillAfterFirst(0)
    \/ OMOnFillEvent(0)
    \/ PortfolioOnFillEvent(0)
    \/ PortfolioReturn(0)

SpecSma == InitSma /\ [][NextSma]_vars

\* the mean of the last period of the first k prices received
RECURSIVE SumOfPrices(_, _, _)
SumOfPrices(seen, from, to) ==
    IF from > to THEN 0 ELSE seen[from] + SumOfPrices(seen, from + 1, to)

MeanAt(seen, k, period) == Rat(SumOfPrices(seen, k - period + 1, k), period)

\* the fast average is above the slow one at the evaluation of the k-th price
AboveAt(seen, k) ==
    ~RLeq(MeanAt(seen, k, SmaFastPeriod), MeanAt(seen, k, SmaSlowPeriod))

\* the latest price made a golden cross, a death cross
GoldenCross(seen) ==
    /\ Len(seen) > SmaSlowPeriod
    /\ ~AboveAt(seen, Len(seen) - 1)
    /\ AboveAt(seen, Len(seen))

DeathCross(seen) ==
    /\ Len(seen) > SmaSlowPeriod
    /\ AboveAt(seen, Len(seen) - 1)
    /\ ~AboveAt(seen, Len(seen))

\* the order the strategy decided on at the latest price
Ordered(st, side, quantity) ==
    /\ st.want.count = Len(st.seen)
    /\ st.want.side = side
    /\ st.want.type = "MARKET"
    /\ st.want.quantity = quantity

\* Portfolio::submitOrder has returned true for the order the strategy wanted
OrderWentThrough(st) ==
    /\ ~Busy(0)
    /\ ret.n = st.want.n + 1
    /\ ret.ok

\* C34: on a golden cross with position q <= 0 the strategy orders BUY MARKET
\* position_size - q, on a death cross with q >= 0 SELL MARKET
\* position_size + q; once Portfolio::submitOrder has returned true for the
\* order the position is +position_size after a BUY and -position_size after
\* a SELL; and no order is decided before slow_period prices were received.
C34_SmaTargetPosition ==
    \A s \in SmaNames :
        LET st == strategyState[s] IN
        /\ (GoldenCross(st.seen) /\ st.q <= 0)
              => Ordered(st, "BUY", SmaPositionSize - st.q)
        /\ (DeathCross(st.seen) /\ st.q >= 0)
              => Ordered(st, "SELL", SmaPositionSize + st.q)
        /\ st.want.n >= 0 => st.want.count >= SmaSlowPeriod
        /\ OrderWentThrough(st)
              => PositionQty(SmaSymbol) = (IF st.want.side = "BUY"
                                           THEN SmaPositionSize
                                           ELSE -SmaPositionSize)

\* a golden cross found the strategy short: its BUY of position_size + 1
\* went through and the position is +position_size
C34_Witness ==
    /\ OrderWentThrough(strategyState["sma1"])
    /\ GoldenCross(strategyState["sma1"].seen)
    /\ strategyState["sma1"].q = -SmaPositionSize
    /\ strategyState["sma1"].want.side = "BUY"
    /\ strategyState["sma1"].want.quantity = 2 * SmaPositionSize
    /\ PositionQty(SmaSymbol) = SmaPositionSize

\* --------------------------------------------------------- nested publishes
\* the dispatches of thread t that are not its innermost frame
Suspended(t) ==
    {k \in 2..Len(stack[t]) : stack[t][k].pc = "dispatch"}

\* C35: a dispatch below the innermost frame of its thread is one whose
\* handler is running, never one that has yet to start: an event published
\* by a handler is dispatched to all its handlers before the dispatch the
\* handler belongs to invokes its next one, and the step that invokes a
\* handler leaves the dispatches below it as they are.
C35_NestedPublishDepthFirst ==
    [][\A t \in Threads :
        /\ \A k \in Suspended(t) : stack[t][k].done # <<>>
        /\ HandlerInvoked(t) =>
              \/ RestKept(t, 0)
              \/ RestKept(t, 1)
              \/ RestKept(t, 2)]_vars

\* the OrderManager, subscribed to ORDER after the exchange, is about to
\* handle the PENDING_NEW of an order whose NEW and FILLED it has handled
C35_Witness ==
    /\ Busy(0)
    /\ Top(0).pc = "dispatch"
    /\ Top(0).ev.cat = "ORDER"
    /\ Top(0).ev.status = "PENDING_NEW"
    /\ Top(0).done = <<"ex_order">>
    /\ Top(0).hs = <<"om_order">>
    /\ Top(0).ev.id \in DOMAIN orders
    /\ orders[Top(0).ev.id].status = "FILLED"

\* ------------------------------------------------------------ two Portfolios
\* A second Portfolio is constructed on the bus of the first.  Orders are
\* submitted through the first one only, to an exchange that fills at once.

\* Portfolio::Portfolio: the OrderManager member subscribes to ORDER and to
\* FILL, then the Portfolio to FILL
ConstructSecondPortfolio ==
    /\ ~Busy(0)
    /\ ~portfolio2.alive
    /\ LockFree(0)
    /\ portfolio2' = [alive |-> TRUE, cash |-> InitialCapital,
                      orders |-> EmptyMap, positions |-> EmptyMap]
    /\ subscribers' =
          [subscribers EXCEPT
              !["ORDER"] = Append(@, [id |-> nextSubscriptionId, h |-> "om2_order"]),
              !["FILL"] = @ \o <<[id |-> nextSubscriptionId + 1, h |-> "om2_fill"],
                                 [id |-> nextSubscriptionId + 2, h |-> "pf2_fill"]>>]
    /\ nextSubscriptionId' = nextSubscriptionId + 3
    /\ UNCHANGED <<eventQueue, mutex, busLog, eventCount, omVars, cash, limitVars,
                   strategies, strategyState, exVars, stack, nTasks, calls, subs,
                   ret, fillNet, handledNet>>

SecondUnchanged ==
    UNCHANGED <<busVars, eventCount, omVars, cash, limitVars, strategies,
                strategyState, exVars, nTasks, calls, subs, ret, fillNet,
                handledNet>>

\* OrderManager::onOrderEvent of the second Portfolio's OrderManager
OM2OnOrderEvent(t) ==
    /\ Invoking(t, "om2_order")
    /\ LET ev == Top(t).ev IN
       portfolio2' =
          [portfolio2 EXCEPT
              !.orders = IF ev.id \in DOMAIN @
                         THEN [@ EXCEPT ![ev.id] = updateFromEvent(@, ev)]
                         ELSE Put(@, ev.id,
                                  updateFromEvent(NewOrder(ev.symbol, ev.side, ev.type,
                                                           ev.price, ev.quantity,
                                                           calls), ev))]
    /\ stack' = Continue(t, Invoked(t))
    /\ SecondUnchanged

\* OrderManager::onFillEvent of the second Portfolio's OrderManager
OM2OnFillEvent(t) ==
    /\ Invoking(t, "om2_fill")
    /\ LET ev == Top(t).ev
           pos == PositionOf(portfolio2.positions, ev.symbol)
       IN  portfolio2' =
              [portfolio2 EXCEPT
                  !.orders = IF ev.id \in DOMAIN @
                             THEN [@ EXCEPT ![ev.id] =
                                      OrderApplyFill(@, ev.quantity, ev.price)]
                             ELSE @,
                  !.positions =
                      Put(@, ev.symbol,
                          [PositionApplyFill(pos, ev.side, ev.quantity, ev.price)
                              EXCEPT !.net = pos.net + (IF ev.side = "BUY"
                                                        THEN ev.quantity
                                                        ELSE -ev.quantity)])]
    /\ stack' = Continue(t, Invoked(t))
    /\ SecondUnchanged

\* Portfolio::onFillEvent of the second Portfolio
Portfolio2OnFillEvent(t) ==
    /\ Invoking(t, "pf2_fill")
    /\ portfolio2' = [portfolio2 EXCEPT !.cash = CashAfterFill(@, Top(t).ev)]
    /\ stack' = Continue(t, Invoked(t))
    /\ SecondUnchanged

InitTwo ==
    /\ config = QuietConfig
    /\ InitExchangeFirst

NextTwo ==
    \/ ConstructSecondPortfolio
    \/ \E a \in SpecArgs : PortfolioSubmitOrder(a, EmptyMap)
    \/ OMSubmitOrder(0)
    \/ OMPublishPendingNew(0)
    \/ OMOnOrderEvent(0)
    \/ ExOnOrderEvent(0)
    \/ ExSubmitOrder(0)
    \/ ExScheduleFill(0)
    \/ ProcessFillStart(0)
    \/ ProcessFillAfterFirst(0)
    \/ OMOnFillEvent(0)
    \/ PortfolioOnFillEvent(0)
    \/ PortfolioReturn(0)
    \/ OM2OnOrderEvent(0)
    \/ OM2OnFillEvent(0)
    \/ Portfolio2OnFillEvent(0)

SpecTwo == InitTwo /\ [][NextTwo]_vars

\* C36: the Fill events of orders submitted through the first Portfolio leave
\* the second Portfolio with its initial cash and without a position.
C36_PortfolioIsolation ==
    portfolio2.alive =>
        /\ portfolio2.cash = InitialCapital
        /\ \A symbol \in DOMAIN portfolio2.positions :
              portfolio2.positions[symbol].quantity = 0

\* ------------------------------------------------------- cash of a Portfolio
\* LIMIT and MARKET orders are submitted through the Portfolio to an exchange
\* that fills at once and without slippage, and whose market price of the
\* symbol is set between the submissions.
CashArgs ==
    OrderArgs(OrderIds, {"A"}, Sides, {"LIMIT", "MARKET"}, 1..MaxPrice, 1..MaxQty)

NextCash ==
    \/ \E price \in 1..MaxFillPrice : setMarketPrice("A", price)
    \/ \E a \in CashArgs : PortfolioSubmitOrder(a, EmptyMap)
    \/ OMSubmitOrder(0)
    \/ OMPublishPendingNew(0)
    \/ OMOnOrderEvent(0)
    \/ ExOnOrderEvent(0)
    \/ ExSubmitOrder(0)
    \/ ExScheduleFill(0)
    \/ ProcessFillStartExact(0)
    \/ ProcessFillAfterFirst(0)
    \/ OMOnFillEvent(0)
    \/ PortfolioOnFillEvent(0)
    \/ PortfolioReturn(0)

SpecCash == InitTwo /\ [][NextCash]_vars

\* C37: starting from a non-negative initial capital, the cash of the
\* Portfolio is non-negative in every reachable state, whatever orders are
\* submitted through Portfolio::submitOrder and filled by the exchange.
C37_CashNeverNegative == cash >= 0

\* ------------------------------------- queue draining and direct publishing
\* A StrategyManager and a Portfolio share the bus.  The caller's thread is
\* the main event loop, which enqueues Trade events and drains the queue;
\* every other thread publishes Trade events directly.  The onTradeEvent of a
\* running strategy submits an order through the Portfolio.

\* the events processQueue handles at most in one turn of the main loop
MainLoopBatch == 10

TradeOf(symbol, price) ==
    [cat |-> "MARKET_DATA", kind |-> "Trade", symbol |-> symbol, price |-> price]

\* The lock_guard of StrategyManager::mutex_ is in scope for the whole of a
\* fan-out.  The mutex is recursive: only another thread's hold blocks.
ManagerLockedBy(t) ==
    \E i \in 1..Len(stack[t]) : stack[t][i].pc = "fanout"

ManagerFree(t) == \A u \in Threads \ {t} : ~ManagerLockedBy(u)

\* StrategyManager::StrategyManager is constructed before the Portfolio: it
\* subscribes to MARKET_DATA, ORDER and FILL
InitLocks ==
    /\ config = QuietConfig
    /\ PortfolioConstructed(4)
    /\ subscribers = [MARKET_DATA |-> <<[id |-> 1, h |-> "sm_market"]>>,
                      ORDER |-> <<[id |-> 2, h |-> "sm_order"],
                                  [id |-> 4, h |-> "om_order"]>>,
                      FILL |-> <<[id |-> 3, h |-> "sm_fill"],
                                 [id |-> 5, h |-> "om_fill"],
                                 [id |-> 6, h |-> "pf_fill"]>>]
    /\ isRunning = FALSE
    /\ orderSubId = 0

\* the calls of the main thread on the manager take its mutex
ManagerCall(call) == ManagerFree(0) /\ call

\* enqueue(trade) on the main thread
EnqueueTrade(symbol, price) ==
    /\ ManagerIdle
    /\ LockFree(0)
    /\ Len(eventQueue) < MaxQueue
    /\ calls' = calls + 1
    /\ eventQueue' = Append(eventQueue, TradeOf(symbol, price))
    /\ UNCHANGED <<strategyVars, stack>>
    /\ UNCHANGED <<subscribers, nextSubscriptionId, mutex, busLog>>
    /\ UNCHANGED <<eventCount, omVars, cash, limitVars, exVars, nTasks, subs, ret,
                   fillNet, handledNet, portfolio2>>

\* one turn of the main event loop: processQueue(10), up to taking the bus's
\* mutex
MainLoopTurn ==
    /\ ManagerIdle
    /\ LockFree(0)
    /\ calls' = calls + 1
    /\ mutex' = [held |-> TRUE, owner |-> 0]
    /\ stack' = [stack EXCEPT ![0] = <<[pc |-> "process_queue", processed |-> 0,
                                        maxEvents |-> MainLoopBatch,
                                        len0 |-> Len(eventQueue)]>>]
    /\ UNCHANGED <<strategyVars, subscribers, nextSubscriptionId, eventQueue,
                   busLog>>
    /\ UNCHANGED <<eventCount, omVars, cash, limitVars, exVars, nTasks, subs, ret,
                   fillNet, handledNet, portfolio2>>

\* publish(trade) on a thread of its own
PublishTrade(t, symbol, price) ==
    /\ t # 0
    /\ ~Busy(t)
    /\ calls < MaxStrategyCalls
    /\ LockFree(t)
    /\ calls' = calls + 1
    /\ stack' = [stack EXCEPT ![t] = DispatchFrame(TradeOf(symbol, price))]
    /\ eventCount' = eventCount + 1
    /\ UNCHANGED <<strategyVars, busVars, omVars, cash, limitVars, exVars, nTasks,
                   subs, ret, fillNet, handledNet, portfolio2>>

\* the range-for of a fan-out of the event ev, n fan-outs deep
ManagerFrame(ev, n) ==
    [pc |-> "fanout", kind |-> IF ev.cat = "MARKET_DATA" THEN ev.kind ELSE "Order",
     n |-> n, i |-> 1, end |-> Len(strategies), ev |-> ev,
     at |-> [strategies |-> strategies,
             running |-> {s \in StrategyNames : strategyState[s].isRunning}],
     got |-> <<>>]

\* StrategyManager::onMarketDataEvent and onOrderEvent as handlers of the
\* bus: the mutex is taken, then the range-for begins
ManagerOnEvent(t, h) ==
    /\ Invoking(t, h)
    /\ ManagerFree(t)
    /\ stack' = Continue(t, <<ManagerFrame(Top(t).ev,
                                           IF ManagerLockedBy(t) THEN 1 ELSE 0)>>
                            \o Invoked(t))
    /\ UNCHANGED <<strategyVars, calls>>
    /\ StrategyUnchanged

ManagerInFanOut(t) ==
    /\ Busy(t)
    /\ Top(t).pc = "fanout"
    /\ Top(t).i <= Top(t).end
    /\ Top(t).i <= Len(strategies)

\* the strategy whose turn it is gets a Trade while running
ManagerDeliversTrade(t) ==
    /\ Top(t).kind = "Trade"
    /\ Delivers(strategyState[strategies[Top(t).i]])

\* one turn of the loop whose hook, if called, returns
ManagerTurn(t) ==
    /\ ManagerInFanOut(t)
    /\ ~ManagerDeliversTrade(t)
    /\ stack' = Continue(t, <<Turn(Top(t),
                                   Delivers(strategyState[strategies[Top(t).i]]))>>)
    /\ UNCHANGED <<strategyVars, calls>>
    /\ StrategyUnchanged

\* one turn of the loop whose onTradeEvent submits a LIMIT order of one unit
\* at the trade's price, under a generated id: Strategy::submitOrder ->
\* Portfolio::submitOrder
ManagerTurnSubmits(t) ==
    /\ ManagerInFanOut(t)
    /\ ManagerDeliversTrade(t)
    /\ ~PortfolioLocked
    /\ LET s == strategies[Top(t).i]
           ev == Top(t).ev
           a == [id |-> <<s, strategyState[s].orderCounter + 1>>,
                 symbol |-> ev.symbol, side |-> "BUY", type |-> "LIMIT",
                 price |-> ev.price, quantity |-> 1]
           ok == preTradeRiskCheck(a.symbol, a.side, a.price, a.quantity, EmptyMap)
       IN  /\ strategyState' = [strategyState EXCEPT ![s].orderCounter = @ + 1]
           /\ IF ok
              THEN /\ stack' = Continue(t, <<[pc |-> "om_submit", a |-> a],
                                             [pc |-> "pf_return", a |-> a,
                                              locked |-> FALSE,
                                              events |-> eventCount,
                                              v |-> Verdict(a, EmptyMap)],
                                             Turn(Top(t), TRUE)>>)
                   /\ ret' = ret
              ELSE /\ stack' = Continue(t, <<Turn(Top(t), TRUE)>>)
                   /\ ret' = [n |-> ret.n + 1, ok |-> FALSE,
                              v |-> Verdict(a, EmptyMap)]
    /\ UNCHANGED <<strategies, calls, busVars, eventCount, omVars, cash, limitVars,
                   exVars, nTasks, subs, fillNet, handledNet, portfolio2>>

\* the loop is over: the lock_guard goes out of scope and the handler returns
ManagerReturn(t) ==
    /\ Busy(t)
    /\ Top(t).pc = "fanout"
    /\ Top(t).i > Top(t).end
    /\ stack' = Continue(t, <<>>)
    /\ UNCHANGED <<strategyVars, calls>>
    /\ StrategyUnchanged

NextLocks ==
    \/ \E s \in SmaNames : ManagerCall(addStrategy(s))
    \/ ManagerCall(startAll)
    \/ \E price \in 1..MaxPrice : EnqueueTrade("A", price)
    \/ MainLoopTurn
    \/ \E t \in Threads : ProcessQueueLoop(t)
    \/ \E t \in Threads : \E price \in 1..MaxPrice : PublishTrade(t, "A", price)
    \/ \E t \in Threads : \E h \in {"sm_market", "sm_order"} : ManagerOnEvent(t, h)
    \/ \E t \in Threads : ManagerTurn(t)
    \/ \E t \in Threads : ManagerTurnSubmits(t)
    \/ \E t \in Threads : ManagerReturn(t)
    \/ \E t \in Threads : OMSubmitOrder(t)
    \/ \E t \in Threads : OMPublishPendingNew(t)
    \/ \E t \in Threads : OMOnOrderEvent(t)
    \/ \E t \in Threads : PortfolioReturn(t)

SpecLocks == InitLocks /\ [][NextLocks]_vars

\* thread t is about to lock the bus's mutex, which another thread holds
WaitsForBus(t) ==
    /\ Busy(t)
    /\ Top(t).pc = "om_publish"
    /\ ~LockFree(t)

\* thread t is about to lock the manager's mutex, which another thread holds
WaitsForManager(t) ==
    /\ \E h \in {"sm_market", "sm_order"} : Invoking(t, h)
    /\ ~ManagerFree(t)

\* C38: with one thread draining the queue and another publishing directly,
\* both into a StrategyManager whose strategy submits an order from its
\* callback, there is no state in which one thread waits for the bus's mutex
\* held by the other while the other waits for the manager's mutex held by
\* the first.
C38_NoLockCycle ==
    \A t, u \in Threads :
        ~(/\ t # u
          /\ WaitsForBus(t) /\ mutex.owner = u
          /\ WaitsForManager(u) /\ ManagerLockedBy(t))

\* ----------------------------------------------- lifetime of the exchange
\* The exchange fills after a delay, on a detached thread whose lambda
\* captures this, and is destroyed while the caller's thread is idle.
DelayedConfigs == {c \in Configs : ~c.instantFills}

\* SimulatedExchange::~SimulatedExchange: stop(), then the members are
\* destroyed; no fill task is joined or cancelled
ExchangeDestructor ==
    /\ Idle
    /\ ~exchangeDestroyed
    /\ calls' = calls + 1
    /\ IF ~isRunning
       THEN UNCHANGED <<busVars, isRunning>>
       ELSE /\ isRunning' = FALSE
            /\ Unsubscribe(orderSubId)
            /\ UNCHANGED busLog
    /\ exchangeDestroyed' = TRUE
    /\ subs' = [s \in 1..Len(subs) |-> [subs[s] EXCEPT !.stopped = TRUE]]
    /\ UNCHANGED <<eventCount, omVars, cash, limitVars, strategyVars, portfolio2,
                   config, orderSubId, marketPrices, stack, nTasks, ret, fillNet,
                   handledNet>>

\* the detached thread wakes up while the exchange exists
TaskWakeAlive(t) ==
    /\ ~exchangeDestroyed
    /\ TaskWake(t)

\* what reading isRunning_ through the dangling this can give
DanglingReads == {"set", "clear", "fault"}

\* the detached thread wakes up after the destructor has run: the read of
\* isRunning_ is a use of freed memory, which finds the flag set, finds it
\* clear, or ends the process
TaskWakeDangling(t) ==
    /\ Busy(t)
    /\ Top(t).pc = "task_sleep"
    /\ exchangeDestroyed
    /\ \E read \in DanglingReads :
         stack' = CASE read = "set" ->
                         Continue(t, <<[Top(t) EXCEPT !.pc = "pf_start"]>>)
                    [] read = "clear" -> Continue(t, <<>>)
                    [] read = "fault" -> [stack EXCEPT ![t] = <<[pc |-> "crashed"]>>]
    /\ UNCHANGED <<busVars, eventCount, omVars, cash, limitVars, strategyVars,
                   portfolio2, exVars, nTasks, calls, subs, ret, fillNet,
                   handledNet>>

InitLifetime ==
    /\ config \in DelayedConfigs
    /\ InitExchangeFirst

NextLifetime ==
    \/ \E a \in SpecArgs : PortfolioSubmitOrder(a, EmptyMap)
    \/ ExchangeDestructor
    \/ \E t \in Threads : TaskWakeAlive(t)
    \/ \E t \in Threads : TaskWakeDangling(t)
    \/ \E t \in Threads : OMSubmitOrder(t)
    \/ \E t \in Threads : OMPublishPendingNew(t)
    \/ \E t \in Threads : OMOnOrderEvent(t)
    \/ \E t \in Threads : ExOnOrderEvent(t)
    \/ \E t \in Threads : ExSubmitOrder(t)
    \/ \E t \in Threads : ExScheduleFill(t)
    \/ \E t \in Threads : PortfolioReturn(t)
    \/ \E t \in Threads : ProcessFillStart(t)
    \/ \E t \in Threads : ProcessFillAfterFirst(t)
    \/ \E t \in Threads : ProcessFillRemaining(t)
    \/ \E t \in Threads : ProcessFillFilled(t)
    \/ \E t \in Threads : OMOnFillEvent(t)
    \/ \E t \in Threads : PortfolioOnFillEvent(t)

SpecLifetime == InitLifetime /\ [][NextLifetime]_vars

\* the places of a fill task at which its next step reads a member of the
\* exchange (isRunning_, config_, marketPrices_) or publishes for it
TaskPlaces == {"task_sleep", "pf_start", "pf_filled_first", "pf_remaining", "pf_filled"}

\* the fill task t takes a step of the lambda or of processFill
TaskActs(t) ==
    /\ Busy(t)
    /\ Top(t).pc \in TaskPlaces
    /\ stack'[t] # stack[t]

\* C39: no fill task that submitOrder scheduled on a detached thread reads
\* the running flag, the configuration or the market prices, or publishes,
\* once the exchange object is destroyed.
C39_TasksDoNotOutliveExchange ==
    [][\A t \in Threads \ {0} : TaskActs(t) => ~exchangeDestroyed]_vars

\* ------------------------------------------ the exchange's subscription
\* the subscriptions of the exchange's handler among the handlers hs
ExchangeSubscriptions(hs) == Len(SelectSeq(hs, LAMBDA h : h = "ex_order"))

\* the NEW and REJECTED events the exchange published for its submission s
Acknowledgements(s) ==
    Len(SelectSeq(subs[s].pub, LAMBDA p : p.kind \in {"NEW", "REJECTED"}))

\* C40: whatever start() and stop() calls were made, the exchange has exactly
\* one ORDER subscription while it is running and none while it is stopped;
\* so the dispatch of an Order event invokes the exchange at most once, and
\* the exchange publishes at most one NEW or REJECTED for each submission a
\* PENDING_NEW event made.
C40_ExchangeSubscription ==
    /\ ExchangeSubscriptions(SubscribedHandlers("ORDER")) = IF isRunning THEN 1 ELSE 0
    /\ \A t \in Threads : \A k \in 1..Len(stack[t]) :
          stack[t][k].pc = "dispatch" /\ stack[t][k].ev.cat = "ORDER" =>
             ExchangeSubscriptions(stack[t][k].snap) <= 1
    /\ \A s \in 1..Len(subs) : Acknowledgements(s) <= 1

\* the exchange was stopped and started again (its subscription has a new
\* id), and has acknowledged the PENDING_NEW of an order submitted since
C40_Witness ==
    /\ isRunning
    /\ orderSubId > 4
    /\ ExchangeSubscriptions(SubscribedHandlers("ORDER")) = 1
    /\ \E s \in 1..Len(subs) : subs[s].running /\ Acknowledgements(s) = 1
    /\ \E id \in DOMAIN orders : orders[id].status # "PENDING_NEW"

====
